---- MODULE Spec2Model ----
(***************************************************************************)
(* A model of the expression lowering of gcc/rust/backend/                 *)
(* rust-compile-expr.cc: tuple-match decomposition, literal                *)
(* materialisation, adjustments, enum construction/matching and dynamic    *)
(* dispatch.                                                               *)
(***************************************************************************)
EXTENDS Integers, Sequences, FiniteSets, TLC

\* ------------------------------------------------------------------------
\* Bounds of the model
\* ------------------------------------------------------------------------
\* largest number of cases of a generated match expression
MaxCases == 2
\* largest number of characters of a generated literal
MaxLitLen == 4
\* largest number of recorded adjustments of one expression
MaxAdj == 2
\* largest number of variants of a generated enum
MaxVariants == 2
\* largest number of items of a generated dynamic object
MaxItems == 3
\* largest number of times the call site is lowered
MaxLowerings == 2
\* largest number of bytes of a string literal
MaxStrLen == 3
\* arities of the generated tuple scrutinees
Arities == {2, 3}
\* literal values that occur in patterns
PatVals == {1, 2}
\* values a scrutinee element can evaluate to (3 matches no literal pattern)
ScrutVals == {1, 2, 3}

VARIABLES
  mexpr,   \* the HIR::MatchExpr handed to the lowering
  mmap,    \* the map returned by organize_tuple_patterns (expr)
  mout,    \* the HIR::MatchExpr returned by simplify_tuple_match (expr)
  mpc,     \* "start" before, "done" after the decomposition
  litstr,  \* the text of the literal, expr.get_literal ().as_string ()
  litty,   \* the resolved type of the literal
  litres,  \* the tree the literal was compiled to
  litpc,   \* "start" before, "done" after the literal is compiled
  aworld,  \* how a reference to a slice is compiled: "handle" or "pointer"
  ain,     \* the value, its type, its recorded adjustments, the type lookup
  atrace,  \* the value after each adjustment, in order
  ares,    \* the value the handler produced (`translated`, or the return value)
  apc,     \* "start", then "adjusted" or "borrowed"
  edef,    \* the ADT: whether it is an enum, and its variants
  ein,     \* the constructor call (variant, arguments) and the arms of the match
  evalue,  \* the tree the constructor call was lowered to
  esel,    \* the switch of the match: its discriminant and the arm it selects
  epc,     \* "start", "built", "matched"
  ditems,  \* the function ids of the dynamic object's items, in order
  dcall,   \* the call site: the id of the called function, the receiver kind
  dlog,    \* the lowerings of the call site so far, oldest first
  strlit,  \* the bytes of the string literal, expr.get_literal ().as_string ()
  strres,  \* the tree the string literal was compiled to
  strpc,    \* "start" before, "done" after the string literal is compiled
  lexpr,   \* the expression handed to CompileExpr::Compile
  lty,     \* the facts the type context holds about lexpr, and the addresses of clones
  lctx,    \* the compile context: block stack, statements, temporaries, diagnostics
  lpc,      \* "start" before, "done" after the expression is lowered
  cin,     \* the call, method call or operator expression and what the type context holds for it
  cout,    \* what its handler built: the value, the statements added, the items compiled
  cpc      \* where the lowering of the call stands

mvars == <<mexpr, mmap, mout, mpc>>

lvars == <<litstr, litty, litres, litpc>>

avars == <<aworld, ain, atrace, ares, apc>>

evars == <<edef, ein, evalue, esel, epc>>

dvars == <<ditems, dcall, dlog>>

svars == <<strlit, strres, strpc>>

wvars == <<lexpr, lty, lctx, lpc>>

cvars == <<cin, cout, cpc>>

vars == <<mvars, lvars, avars, evars, dvars, svars, wvars, cvars>>

\* ------------------------------------------------------------------------
\* HIR patterns, expressions, match cases (rust-hir-pattern.h, rust-hir-expr.h
\* as used by the lowering).  Every node kind has the same record shape.
\* ------------------------------------------------------------------------
NoItems == <<>>

WildcardPattern == [pt |-> "WILDCARD", itype |-> "NONE", val |-> 0, items |-> NoItems]

LiteralPattern(v) == [pt |-> "LITERAL", itype |-> "NONE", val |-> v, items |-> NoItems]

\* HIR::TuplePattern over HIR::TuplePatternItemsMultiple
TuplePattern(ps) == [pt |-> "TUPLE", itype |-> "MULTIPLE", val |-> 0, items |-> ps]

\* HIR::TuplePattern over HIR::TuplePatternItemsRanged, the pattern (..)
RangedTuplePattern == [pt |-> "TUPLE", itype |-> "RANGED", val |-> 0, items |-> NoItems]

\* a path expression naming the i-th scrutinee variable
PathExpr(i) == [et |-> "Path", val |-> i, elems |-> <<>>, cases |-> <<>>]

\* a literal expression; the result of source case i is the literal i
LitExpr(v) == [et |-> "Lit", val |-> v, elems |-> <<>>, cases |-> <<>>]

TupleExpr(es) == [et |-> "Tuple", val |-> 0, elems |-> es, cases |-> <<>>]

\* HIR::MatchExpr (mappings, scrutinee, cases, ...): val holds the mappings
MatchExpr(id, scrutinee, cs) ==
  [et |-> "Match", val |-> id, elems |-> <<scrutinee>>, cases |-> cs]

\* HIR::MatchCase (mappings, arm, expr); pats are the arm's alternatives
MatchCase(id, ps, e) == [id |-> id, pats |-> ps, expr |-> e]

get_scrutinee_expr(m) == m.elems[1]

\* ------------------------------------------------------------------------
\* std::map<std::unique_ptr<HIR::Pattern>, std::vector<HIR::MatchCase>>.
\* The key is a unique_ptr, which std::less orders and compares by the
\* address it holds.  The map is the sequence of its entries in ascending
\* address order, which is the order map.begin () .. map.end () visits.
\* An entry keeps the address (key), the pattern at it (first) and the
\* vector of cases (cases).
\* ------------------------------------------------------------------------
MapEntry(a, first, cs) == [key |-> a, first |-> first, cases |-> cs]

\* map.find (first): the position of the entry whose key holds address a,
\* 0 for map.end ()
MapFind(map, a) ==
  IF \E k \in 1..Len(map) : map[k].key = a
  THEN CHOOSE k \in 1..Len(map) : map[k].key = a
  ELSE 0

\* the position a new key with address a takes in the ordered map
MapSlot(map, a) == Cardinality({k \in 1..Len(map) : map[k].key < a}) + 1

\* search->second.push_back (new_case), or map[std::move (first)] = { new_case }
MapInsert(map, a, first, new_case) ==
  LET search == MapFind(map, a) IN
  IF search # 0
  THEN [map EXCEPT ![search].cases = Append(@, new_case)]
  ELSE LET at == MapSlot(map, a) IN
       SubSeq(map, 1, at - 1) \o <<MapEntry(a, first, <<new_case>>)>>
         \o SubSeq(map, at, Len(map))

\* the pattern made of the tuple items left once the first is popped: the
\* item itself when one is left, a new TuplePattern otherwise
RestPattern(items) ==
  LET patterns == Tail(items) IN
  IF Len(patterns) = 1 THEN patterns[1] ELSE TuplePattern(patterns)

\* a faulty NewCase: the first tuple item is not popped from the pattern
NewCaseKeepsFirst(match_case, items) ==
  MatchCase(match_case.id, <<TuplePattern(items)>>, match_case.expr)

\* the new MatchCase built for one case: the mappings and a clone of the
\* result expression of match_case, an arm with the single rest pattern
NewCase(match_case, items) ==
  MatchCase(match_case.id, <<RestPattern(items)>>, match_case.expr)

\* a faulty turn of the loop: the last alternative of the arm is taken
OrganizeCaseLastAlternative(map, match_case, a) ==
  LET pat == match_case.pats[Len(match_case.pats)] IN
  IF pat.pt = "WILDCARD" THEN map
  ELSE IF pat.itype = "MULTIPLE"
       THEN MapInsert(map, a, pat.items[1], NewCase(match_case, pat.items))
       ELSE map

\* one turn of the loop over expr.get_match_cases (); a is the address of the
\* clone `first` made in this turn
OrganizeCase(map, match_case, a) ==
  LET pat == match_case.pats[1] IN
  IF pat.pt = "WILDCARD" THEN map
  ELSE IF pat.itype = "MULTIPLE"
       THEN MapInsert(map, a, pat.items[1], NewCase(match_case, pat.items))
       ELSE map

RECURSIVE OrganizeLoop(_, _, _, _)
OrganizeLoop(cs, alloc, i, map) ==
  IF i > Len(cs) THEN map
  ELSE OrganizeLoop(cs, alloc, i + 1, OrganizeCase(map, cs[i], alloc[i]))

\* alloc[i] is the address the allocator hands out for the clone of the first
\* tuple item of case i; the clones that become keys are all alive together,
\* so the addresses are pairwise different, and nothing else is known of them
organize_tuple_patterns(expr, alloc) == OrganizeLoop(expr.cases, alloc, 1, <<>>)

\* a faulty split: the last element is taken for the head
ScrutineeHeadLast(scrutinee) == scrutinee.elems[Len(scrutinee.elems)]

\* head and remaining of the scrutinee tuple
ScrutineeHead(scrutinee) == scrutinee.elems[1]

ScrutineeRemaining(scrutinee) ==
  LET tail == Tail(scrutinee.elems) IN
  IF Len(tail) = 1 THEN tail[1] ELSE TupleExpr(tail)

\* what simplify_tuple_match leaves when rust_assert (tail.size () > 1)
\* fails: the compiler stops and no match is built
AbortedMatch == [et |-> "Abort", val |-> 0, elems |-> <<>>, cases |-> <<>>]

RECURSIVE simplify_tuple_match(_, _)
simplify_tuple_match(expr, alloc) ==
  IF get_scrutinee_expr(expr).et # "Tuple" THEN expr
  ELSE IF Len(get_scrutinee_expr(expr).elems) <= 1 THEN AbortedMatch
  ELSE
    LET head == ScrutineeHead(get_scrutinee_expr(expr))
        remaining == ScrutineeRemaining(get_scrutinee_expr(expr))
        map == organize_tuple_patterns(expr, alloc)
        outer_case(iter) ==
          MatchCase(expr.val, <<iter.first>>,
                    simplify_tuple_match(MatchExpr(expr.val, remaining, iter.cases),
                                         alloc))
        cases == [k \in 1..Len(map) |-> outer_case(map[k])]
    IN IF \E k \in 1..Len(map) : cases[k].expr = AbortedMatch THEN AbortedMatch
       ELSE MatchExpr(expr.val, head, cases)

\* ------------------------------------------------------------------------
\* Evaluation of a match on the values of the scrutinee variables, with the
\* first matching case selected.  env[i] is the value of variable i.
\* The result is <<v>> for the value v of the selected case's result
\* expression, and <<>> when no case is selected.
\* ------------------------------------------------------------------------
NoCase == <<>>

RECURSIVE PatternMatches(_, _, _)
PatternMatches(p, e, env) ==
  CASE p.pt = "WILDCARD" -> TRUE
    [] p.pt = "LITERAL" -> e.et = "Path" /\ env[e.val] = p.val
    [] p.pt = "TUPLE" /\ p.itype = "RANGED" -> e.et = "Tuple"
    [] OTHER -> /\ e.et = "Tuple"
                /\ Len(e.elems) = Len(p.items)
                /\ \A k \in 1..Len(p.items) : PatternMatches(p.items[k], e.elems[k], env)

ArmMatches(c, e, env) == \E k \in 1..Len(c.pats) : PatternMatches(c.pats[k], e, env)

RECURSIVE Eval(_, _)
Eval(e, env) ==
  IF e.et = "Match"
  THEN LET hit == {k \in 1..Len(e.cases) : ArmMatches(e.cases[k], get_scrutinee_expr(e), env)}
       IN IF hit = {} THEN NoCase
          ELSE Eval(e.cases[CHOOSE k \in hit : \A j \in hit : k <= j].expr, env)
  ELSE <<e.val>>

\* ------------------------------------------------------------------------
\* The match expressions the decomposition is run on
\* ------------------------------------------------------------------------
PatElems == {WildcardPattern} \cup {LiteralPattern(v) : v \in PatVals}

\* the first alternative of an arm over a tuple scrutinee of arity n
ArmPatterns(n) ==
  {WildcardPattern, RangedTuplePattern} \cup {TuplePattern(ps) : ps \in [1..n -> PatElems]}

TupleScrutinee(n) == TupleExpr([i \in 1..n |-> PathExpr(i)])

\* a match with source cases 1..Len(ps); case i has mappings i and result i
TupleMatch(n, ps) ==
  MatchExpr(0, TupleScrutinee(n), [i \in 1..Len(ps) |-> MatchCase(i, <<ps[i]>>, LitExpr(i))])

\* the injective address assignments for the clones made for k cases
Allocs(k) == {f \in [1..k -> 1..k] : \A i, j \in 1..k : i # j => f[i] # f[j]}

NoMatch == MatchExpr(0, LitExpr(0), <<>>)

\* the scrutinee (v1, (v2, v3)): the last element is a tuple expression
NestedTupleScrutinee == TupleExpr(<<PathExpr(1), TupleExpr(<<PathExpr(2), PathExpr(3)>>)>>)

\* the first alternative of an arm over (v1, (v2, v3))
NestedArmPatterns ==
  {TuplePattern(<<p, q>>) :
     p \in PatElems,
     q \in {WildcardPattern} \cup {TuplePattern(<<a, b>>) : a, b \in PatElems}}

NestedTupleMatch(ps) ==
  MatchExpr(0, NestedTupleScrutinee,
            [i \in 1..Len(ps) |-> MatchCase(i, <<ps[i]>>, LitExpr(i))])

\* the second alternative of an arm p | q over a tuple scrutinee of arity 2
SecondAlternatives == {WildcardPattern, TuplePattern(<<LiteralPattern(1), LiteralPattern(1)>>)}

\* a match on (v1, v2) whose arms have two alternatives each
OrTupleMatch(ps, qs) ==
  MatchExpr(0, TupleScrutinee(2),
            [i \in 1..Len(ps) |-> MatchCase(i, <<ps[i], qs[i]>>, LitExpr(i))])

MatchInit ==
  /\ \/ \E n \in Arities : \E k \in 1..MaxCases : \E ps \in [1..k -> ArmPatterns(n)] :
          mexpr = TupleMatch(n, ps)
     \/ \E k \in 1..MaxCases : \E ps \in [1..k -> NestedArmPatterns] :
          mexpr = NestedTupleMatch(ps)
     \/ \E k \in 1..MaxCases : \E ps \in [1..k -> ArmPatterns(2)] :
        \E qs \in [1..k -> SecondAlternatives] :
          mexpr = OrTupleMatch(ps, qs)
  /\ mmap = <<>>
  /\ mout = NoMatch
  /\ mpc = "start"

\* CompileExpr::visit (HIR::MatchExpr &) on a tuple expression scrutinee:
\* outer_match = simplify_tuple_match (expr)
MatchSimplify ==
  /\ mpc = "start"
  /\ \E alloc \in Allocs(Len(mexpr.cases)) :
       /\ mmap' = organize_tuple_patterns(mexpr, alloc)
       /\ mout' = simplify_tuple_match(mexpr, alloc)
  /\ mpc' = "done"
  /\ UNCHANGED <<mexpr, lvars, avars, evars, dvars, svars, wvars, cvars>>

Envs(n) == [1..n -> ScrutVals]

Arity(m) == Len(get_scrutinee_expr(m).elems)

\* the expressions of a scrutinee that are not tuple expressions, in order
RECURSIVE Flatten(_)
RECURSIVE FlattenAll(_)
Flatten(e) == IF e.et = "Tuple" THEN FlattenAll(e.elems) ELSE <<e>>
FlattenAll(es) == IF es = <<>> THEN <<>> ELSE Flatten(Head(es)) \o FlattenAll(Tail(es))

\* the number of variables the scrutinee of m reads
ScrutineeVars(m) == Len(Flatten(get_scrutinee_expr(m)))

\* ------------------------------------------------------------------------
\* Integer literals
\* ------------------------------------------------------------------------
Digits == {"0", "1", "2", "5", "6", "7", "8", "9"}

\* the characters a literal text is drawn from; "x" is no decimal digit
LitChars == Digits \cup {"-", "x"}

DigitValue(c) ==
  CASE c = "0" -> 0 [] c = "1" -> 1 [] c = "2" -> 2 [] c = "5" -> 5
    [] c = "6" -> 6 [] c = "7" -> 7 [] c = "8" -> 8 [] c = "9" -> 9
    [] OTHER -> 0

IntTypes == {"i8", "u8"}

TYPE_PRECISION(ty) == 8

TYPE_UNSIGNED(ty) == ty = "u8"

RECURSIVE Pow2(_)
Pow2(n) == IF n = 0 THEN 1 ELSE 2 * Pow2(n - 1)

\* get_type_static_bounds (type, type_min, type_max)
TypeMin(ty) == IF TYPE_UNSIGNED(ty) THEN 0 ELSE 0 - Pow2(TYPE_PRECISION(ty) - 1)

TypeMax(ty) ==
  IF TYPE_UNSIGNED(ty) THEN Pow2(TYPE_PRECISION(ty)) - 1
  ELSE Pow2(TYPE_PRECISION(ty) - 1) - 1

\* mpz_init_set_str (ival, str, 10): an optional minus sign, then at least one
\* digit and digits only; ok is FALSE where the call returns non-zero
RECURSIVE DigitsValue(_, _)
DigitsValue(ds, acc) ==
  IF ds = <<>> THEN acc ELSE DigitsValue(Tail(ds), 10 * acc + DigitValue(Head(ds)))

mpz_init_set_str(str) ==
  LET neg == str # <<>> /\ Head(str) = "-"
      ds == IF neg THEN Tail(str) ELSE str
      ok == ds # <<>> /\ \A k \in 1..Len(ds) : ds[k] \in Digits
  IN [ok |-> ok,
      val |-> IF ~ok THEN 0 ELSE IF neg THEN 0 - DigitsValue(ds, 0) ELSE DigitsValue(ds, 0)]

\* double_int_to_tree (type, mpz_get_double_int (type, ival, true)): the
\* value wrapped to the precision and signedness of the type
WrapToType(ty, v) ==
  LET m == Pow2(TYPE_PRECISION(ty))
      u == v % m
  IN IF ~TYPE_UNSIGNED(ty) /\ u >= m \div 2 THEN u - m ELSE u

error_mark_node(diag) == [node |-> "error", ty |-> "error", val |-> 0, diag |-> diag]

IntegerCst(ty, v) == [node |-> "integer_cst", ty |-> ty, val |-> v, diag |-> "none"]

\* mpz_cmp (ival, type_min) < 0 || mpz_cmp (ival, type_max) > 0
\* a faulty bounds test: the largest value of the type is rejected
IntegerOverflowsAtMax(ival, ty) == ival < TypeMin(ty) \/ ival >= TypeMax(ty)

IntegerOverflows(ival, ty) == ival < TypeMin(ty) \/ ival > TypeMax(ty)

compile_integer_literal(str, tyty) ==
  LET parsed == mpz_init_set_str(str) IN
  IF ~parsed.ok THEN error_mark_node("bad number in literal")
  ELSE IF IntegerOverflows(parsed.val, tyty)
       THEN error_mark_node("integer overflows the respective type")
       ELSE IntegerCst(tyty, WrapToType(tyty, parsed.val))

NoTree == [node |-> "none", ty |-> "none", val |-> 0, diag |-> "none"]

RECURSIVE Strings(_)
Strings(n) ==
  IF n = 0 THEN {<<>>}
  ELSE LET shorter == Strings(n - 1) IN
       shorter \cup {Append(s, c) : s \in {t \in shorter : Len(t) = n - 1}, c \in LitChars}

LitInit ==
  /\ litstr \in Strings(MaxLitLen)
  /\ litty \in IntTypes
  /\ litres = NoTree
  /\ litpc = "start"

\* CompileExpr::compile_integer_literal on the literal
CompileIntegerLiteral ==
  /\ litpc = "start"
  /\ litres' = compile_integer_literal(litstr, litty)
  /\ litpc' = "done"
  /\ UNCHANGED <<litstr, litty, mvars, avars, evars, dvars, svars, wvars, cvars>>

\* ------------------------------------------------------------------------
\* Types.  A TyTy type and a compiled (tree) type are records of one shape:
\* k the kind, n the capacity of an array, to the type referred to.
\* ------------------------------------------------------------------------
Ty(k, n, to) == [k |-> k, n |-> n, to |-> to]

\* TyTy types
TyInt == Ty("INT", 0, <<>>)

TySlice == Ty("SLICE", 0, <<TyInt>>)

TyArray(n) == Ty("ARRAY", n, <<TyInt>>)

\* an ADT whose Deref/DerefMut implementation has the given Target
TyAdt(target) == Ty("ADT", 0, <<target>>)

TyRef(base) == Ty("REF", 0, <<base>>)

\* a trait object type, dyn Trait
TyDyn == Ty("DYNAMIC", 0, <<>>)

\* tree types
IntegerType == Ty("INTEGER_TYPE", 0, <<>>)

SliceRecordType == Ty("SLICE_RECORD", 0, <<IntegerType>>)

PointerType(t) == Ty("POINTER_TYPE", 0, <<t>>)

ErrorType == Ty("ERROR_MARK", 0, <<>>)

VoidPointer == PointerType(Ty("VOID_TYPE", 0, <<>>))

FnPointer == PointerType(Ty("FUNCTION_TYPE", 0, <<>>))

\* the trait object: a pointer to the object and a pointer to its vtable
DynRecordType == Ty("RECORD_TYPE", 0, <<VoidPointer, PointerType(FnPointer)>>)

SLICE_TYPE_P(t) == t.k = "SLICE_RECORD"

\* the number of values of the usize type as modelled (16 bits wide)
UsizeRange == 65536

\* TYPE_DOMAIN of an array type of n elements: the index range [0, n - 1]
\* held in sizetype, so that the upper bound of an empty array wraps
TYPE_MIN_VALUE(array_type) == 0

TYPE_MAX_VALUE(array_type) == (array_type.n - 1) % UsizeRange

\* wi::ext (x, precision, UNSIGNED).to_uhwi (): x in the width of the
\* index type
wi_ext(x) == x % UsizeRange

\* a faulty size: the difference of the bounds is not brought back into
\* the width of the index type
ArraySizeUnextended(expr_type) ==
  TYPE_MAX_VALUE(expr_type) - TYPE_MIN_VALUE(expr_type) + 1

\* array_size of resolve_unsized_adjustment
array_size(expr_type) ==
  wi_ext(TYPE_MAX_VALUE(expr_type) - TYPE_MIN_VALUE(expr_type) + 1)

build_reference_type(t) == PointerType(t)

\* TyTyResolveCompile::compile (ctx, tyty).  A reference to a slice is the
\* fat-pointer record itself in world "handle" and a pointer to the record
\* in world "pointer".
RECURSIVE TyTyResolveCompile(_, _)
TyTyResolveCompile(world, t) ==
  CASE t.k = "INT" -> IntegerType
    [] t.k = "SLICE" -> SliceRecordType
    [] t.k = "ARRAY" -> Ty("ARRAY_TYPE", t.n, <<IntegerType>>)
    [] t.k = "ADT" -> Ty("RECORD_TYPE", 0, <<TyTyResolveCompile(world, t.to[1])>>)
    [] t.k = "DYNAMIC" -> DynRecordType
    [] t.k = "REF" ->
         IF t.to[1].k = "SLICE" /\ world = "handle" THEN SliceRecordType
         ELSE PointerType(TyTyResolveCompile(world, t.to[1]))
    [] OTHER -> ErrorType

\* ------------------------------------------------------------------------
\* Trees built by the backend: op the tree code, ty the type, val the value
\* of a constant, args the operands.
\* ------------------------------------------------------------------------
Tree(op, ty, val, args) == [op |-> op, ty |-> ty, val |-> val, args |-> args]

ErrorMark == Tree("ERROR_MARK", ErrorType, 0, <<>>)

NoValue == Tree("NONE", ErrorType, 0, <<>>)

VarDecl(ty) == Tree("VAR_DECL", ty, 0, <<>>)

TREE_TYPE(e) == e.ty

\* HIRCompileBase::address_expression (expr, ptrtype, locus)
address_expression(e, ptrtype) == Tree("ADDR_EXPR", ptrtype, 0, <<e>>)

\* Backend::indirect_expression (type, expr, known_valid, locus)
indirect_expression(ty, e) == Tree("INDIRECT_REF", ty, 0, <<e>>)

\* Backend::call_expression (fn, args, ...): the type is the return type of fn
call_expression(ret, args) == Tree("CALL_EXPR", ret, 0, args)

\* Backend::constructor_expression (type, is_variant, vals, union_index, locus)
constructor_expression(ty, union_index, vals) == Tree("CONSTRUCTOR", ty, union_index, vals)

build_int_cst(v) == Tree("INTEGER_CST", IntegerType, v, <<>>)

\* ------------------------------------------------------------------------
\* Resolver::Adjustment: type the kind, expected the type after the step,
\* fnret the return type of the deref operator function, needs_borrow
\* whether get_deref_adjustment_type () is not ERROR.
\* ------------------------------------------------------------------------
Adjustment(type, expected, fnret, needs_borrow) ==
  [type |-> type, expected |-> expected, fnret |-> fnret, needs_borrow |-> needs_borrow]

IsBorrow(adj) == adj.type \in {"IMM_REF", "MUT_REF"}

\* an adjustment built without a deref operator function (deref_operator_fn
\* is null): fnret has this value
NoOperatorFn == Ty("NONE", 0, <<>>)

\* Adjustment::has_operator_overload ()
has_operator_overload(adjustment) == adjustment.fnret # NoOperatorFn

\* a failed rust_assert: the compiler stops and no tree is returned
InternalError == Tree("ABORT", ErrorType, 0, <<>>)

\* a faulty deref step: without an operator function the value is
\* dereferenced in place
DerefOrIndirection(world, adjustment, expression) ==
  IF ~has_operator_overload(adjustment)
  THEN indirect_expression(TyTyResolveCompile(world, adjustment.expected), expression)
  ELSE call_expression(TyTyResolveCompile(world, adjustment.fnret),
                       <<IF adjustment.needs_borrow
                         THEN address_expression(expression, build_reference_type(TREE_TYPE(expression)))
                         ELSE expression>>)

\* HIRCompileBase::resolve_deref_adjustment
resolve_deref_adjustment(world, adjustment, expression) ==
  LET adjusted_argument ==
        IF adjustment.needs_borrow
        THEN address_expression(expression, build_reference_type(TREE_TYPE(expression)))
        ELSE expression
  IN IF ~has_operator_overload(adjustment) THEN InternalError
     ELSE call_expression(TyTyResolveCompile(world, adjustment.fnret), <<adjusted_argument>>)

\* HIRCompileBase::resolve_indirection_adjustment
resolve_indirection_adjustment(world, adjustment, expression) ==
  indirect_expression(TyTyResolveCompile(world, adjustment.expected), expression)

\* HIRCompileBase::resolve_unsized_adjustment
resolve_unsized_adjustment(world, adjustment, expression) ==
  LET fat_pointer == TyTyResolveCompile(world, adjustment.expected)
      data == address_expression(expression, build_reference_type(TREE_TYPE(expression)))
      size == build_int_cst(array_size(TREE_TYPE(expression)))
  IN constructor_expression(fat_pointer, -1, <<data, size>>)

\* a faulty borrow step: the address is taken of slices too
BorrowAlwaysAddress(world, adjustment, e) ==
  address_expression(e, TyTyResolveCompile(world, adjustment.expected))

\* the IMM_REF / MUT_REF case of resolve_adjustements
BorrowAdjustment(world, adjustment, e) ==
  IF ~SLICE_TYPE_P(TREE_TYPE(e))
  THEN address_expression(e, TyTyResolveCompile(world, adjustment.expected))
  ELSE e

\* one turn of the loop of resolve_adjustements: the new value of e
ApplyAdjustment(world, adjustment, e) ==
  CASE IsBorrow(adjustment) -> BorrowAdjustment(world, adjustment, e)
    [] adjustment.type \in {"DEREF", "DEREF_MUT"} ->
         resolve_deref_adjustment(world, adjustment, e)
    [] adjustment.type = "INDIRECTION" -> resolve_indirection_adjustment(world, adjustment, e)
    [] adjustment.type = "UNSIZE" -> resolve_unsized_adjustment(world, adjustment, e)
    [] OTHER -> ErrorMark

\* the values of e after each turn of the loop; an ERROR adjustment returns
\* error_mark_node at once, and a failed assertion ends the loop
RECURSIVE AdjustmentTrace(_, _, _)
AdjustmentTrace(world, adjustments, e) ==
  IF adjustments = <<>> THEN <<>>
  ELSE IF Head(adjustments).type = "ERROR" THEN <<ErrorMark>>
  ELSE LET next == ApplyAdjustment(world, Head(adjustments), e) IN
       IF next = InternalError THEN <<next>>
       ELSE <<next>> \o AdjustmentTrace(world, Tail(adjustments), next)

\* HIRCompileBase::resolve_adjustements (adjustments, expression, locus)
resolve_adjustements(world, adjustments, expression) ==
  LET trace == AdjustmentTrace(world, adjustments, expression) IN
  IF trace = <<>> THEN expression ELSE trace[Len(trace)]

\* CompileExpr::visit (HIR::BorrowExpr &): the new value of `translated`;
\* found is the outcome of lookup_type, tyty the type it gives
visit_BorrowExpr(world, main_expr, found, tyty, translated) ==
  IF SLICE_TYPE_P(TREE_TYPE(main_expr)) THEN main_expr
  ELSE IF ~found THEN translated
  ELSE address_expression(main_expr, TyTyResolveCompile(world, tyty))

\* ------------------------------------------------------------------------
\* The adjustment lists the type checker records.  From a value of type t
\* the autoderef cycle can borrow, follow a reference, call the Deref
\* operator of an ADT, or unsize an array.
\* ------------------------------------------------------------------------
RECURSIVE RefDepth(_)
RefDepth(t) == IF t.k = "REF" THEN 1 + RefDepth(t.to[1]) ELSE 0

AdjustmentsFrom(t) ==
  {Adjustment(kind, TyRef(t), TyInt, FALSE) :
     kind \in IF RefDepth(t) < MaxAdj THEN {"IMM_REF", "MUT_REF"} ELSE {}}
  \cup (IF t.k = "REF" THEN {Adjustment("INDIRECTION", t.to[1], TyInt, FALSE)} ELSE {})
  \cup (IF t.k = "ADT"
        THEN {Adjustment(kind, TyRef(t.to[1]), TyRef(t.to[1]), TRUE) : kind \in {"DEREF", "DEREF_MUT"}}
        ELSE {})
  \cup (IF t.k = "REF" /\ t.to[1].k = "ADT"
        THEN {Adjustment("DEREF", TyRef(t.to[1].to[1]), TyRef(t.to[1].to[1]), FALSE)}
        ELSE {})
  \cup (IF t.k = "ADT"
        THEN {Adjustment("DEREF", t.to[1], NoOperatorFn, FALSE)}
        ELSE {})
  \cup (IF t.k = "ARRAY" THEN {Adjustment("UNSIZE", TySlice, TyInt, FALSE)} ELSE {})

RECURSIVE AdjustmentLists(_, _)
AdjustmentLists(t, n) ==
  IF n = 0 THEN {<<>>}
  ELSE {<<>>} \cup
       UNION {{<<a>> \o rest : rest \in AdjustmentLists(a.expected, n - 1)} :
                a \in AdjustmentsFrom(t)}

ArrayCapacity == 3

BaseTypes == {TyInt, TySlice, TyArray(0), TyArray(ArrayCapacity), TyAdt(TyInt), TyAdt(TySlice)}

ValueTypes == BaseTypes \cup {TyRef(t) : t \in BaseTypes}

AdjInit ==
  /\ aworld \in {"handle", "pointer"}
  /\ \E t \in ValueTypes : \E as \in AdjustmentLists(t, MaxAdj) : \E found \in BOOLEAN :
       ain = [value |-> VarDecl(TyTyResolveCompile(aworld, t)), tyty |-> t,
              adjustments |-> as, found |-> found]
  /\ atrace = <<>>
  /\ ares = NoValue
  /\ apc = "start"

\* the receiver of a method or operator call is adjusted
ResolveAdjustments ==
  /\ apc = "start"
  /\ atrace' = AdjustmentTrace(aworld, ain.adjustments, ain.value)
  /\ ares' = resolve_adjustements(aworld, ain.adjustments, ain.value)
  /\ apc' = "adjusted"
  /\ UNCHANGED <<aworld, ain, mvars, lvars, evars, dvars, svars, wvars, cvars>>

\* the value is the operand of a borrow expression &value of type &tyty
VisitBorrowExpr ==
  /\ apc = "start"
  /\ ares' = visit_BorrowExpr(aworld, ain.value, ain.found, TyRef(ain.tyty), ares)
  /\ apc' = "borrowed"
  /\ UNCHANGED <<aworld, ain, atrace, mvars, lvars, evars, dvars, svars, wvars, cvars>>

\* ------------------------------------------------------------------------
\* Enums.  An ADT is a record: is_enum, and variants, each with its
\* discriminant and its number of (integer) fields.  Variant i of the code
\* (counted from 0) is variants[i + 1].
\* ------------------------------------------------------------------------
DiscrVals == {0, 1, 5}

FieldCounts == {0, 1, 2}

ArgVals == {3, 9}

VariantDef(discr, nfields) == [discr |-> discr, nfields |-> nfields]

AdtType(is_enum, variants) == [is_enum |-> is_enum, variants |-> variants]

number_of_variants(adt) == Len(adt.variants)

\* TyTyResolveCompile::compile of an ADT: an enum is a union of one record
\* per variant, each starting with the discriminant; a struct is a record
VariantRecordType(is_enum, variant) ==
  Ty("RECORD_TYPE", 0,
     (IF is_enum THEN <<IntegerType>> ELSE <<>>) \o [i \in 1..variant.nfields |-> IntegerType])

CompileAdtType(adt) ==
  IF adt.is_enum
  THEN Ty("UNION_TYPE", 0,
          [i \in 1..Len(adt.variants) |-> VariantRecordType(TRUE, adt.variants[i])])
  ELSE VariantRecordType(FALSE, adt.variants[1])

\* Backend::struct_field_expression (struct, index, locus)
struct_field_expression(e, index) ==
  Tree("COMPONENT_REF",
       IF index + 1 \in DOMAIN e.ty.to THEN e.ty.to[index + 1] ELSE ErrorType,
       index, <<e>>)

\* HIRCompileBase::coercion_site (rvalue, actual, expected, ...): a value
\* of the expected type already is left as it is, any other is converted
coercion_site(rvalue, actual, expected) ==
  IF actual = expected THEN rvalue
  ELSE Tree("COERCE", TyTyResolveCompile("handle", expected), 0, <<rvalue>>)

\* a faulty constructor: no discriminant is pushed
EnumCtorArgumentsNoTag(qualifier, arguments) == arguments

\* a faulty constructor: the discriminant is pushed after the arguments
EnumCtorArgumentsTagLast(qualifier, arguments) == arguments \o <<qualifier>>

\* the constructor arguments of an enum variant: the folded discriminant
\* is pushed first, then the coerced arguments
EnumCtorArguments(qualifier, arguments) == <<qualifier>> \o arguments

\* CompileExpr::visit (HIR::CallExpr &), the ADT constructor branch;
\* variant_index is what lookup_variant_by_id gives for an enum
visit_CallExpr(adt, variant_index, args) ==
  LET compiled_adt_type == CompileAdtType(adt)
      union_disriminator == IF ~adt.is_enum THEN -1 ELSE variant_index
      variant == IF ~adt.is_enum THEN adt.variants[1] ELSE adt.variants[variant_index + 1]
      arguments == [i \in 1..Len(args) |-> coercion_site(build_int_cst(args[i]), TyInt, TyInt)]
      ctor_arguments ==
        IF adt.is_enum
        THEN EnumCtorArguments(build_int_cst(variant.discr), arguments)
        ELSE arguments
  IN constructor_expression(compiled_adt_type, union_disriminator, ctor_arguments)

\* the switch discriminant of a match on an ADT scrutinee
ScrutineeQualifier(match_scrutinee_expr) ==
  LET scrutinee_first_record_expr == struct_field_expression(match_scrutinee_expr, 0)
  IN struct_field_expression(scrutinee_first_record_expr, 0)

\* a value that no program wrote
Indeterminate == -1

\* The value a tree has when the program runs: an integer, or for an
\* aggregate the sequence of its words.  The members of a union all lie
\* over the same words.
RECURSIVE Load(_)
Load(t) ==
  CASE t.op = "INTEGER_CST" -> t.val
    [] t.op = "CONSTRUCTOR" -> [k \in 1..Len(t.args) |-> Load(t.args[k])]
    [] t.op = "COMPONENT_REF" ->
         IF t.args[1].ty.k = "UNION_TYPE" THEN Load(t.args[1])
         ELSE LET words == Load(t.args[1]) IN
              IF t.val + 1 \in DOMAIN words THEN words[t.val + 1] ELSE Indeterminate
    [] OTHER -> Indeterminate

\* CompilePatternCaseLabelExpr: the case label of an arm naming a variant
\* is that variant's discriminant
CaseLabel(adt, variant_index) == adt.variants[variant_index + 1].discr

NoArm == 0

\* SWITCH_EXPR: control goes to the first arm whose label equals the value
SwitchArm(adt, arms, value) ==
  LET hits == {a \in DOMAIN arms : CaseLabel(adt, arms[a]) = value} IN
  IF hits = {} THEN NoArm ELSE CHOOSE a \in hits : \A b \in hits : a <= b

\* CompileExpr::visit (HIR::MatchExpr &) on an ADT scrutinee
visit_MatchExpr(adt, arms, match_scrutinee_expr) ==
  LET match_scrutinee_expr_qualifier_expr == ScrutineeQualifier(match_scrutinee_expr)
      tag == Load(match_scrutinee_expr_qualifier_expr)
  IN [qualifier |-> match_scrutinee_expr_qualifier_expr, tag |-> tag,
      arm |-> SwitchArm(adt, arms, tag)]

RECURSIVE InjectiveSeqs(_, _)
InjectiveSeqs(S, n) ==
  IF n = 0 THEN {<<>>}
  ELSE UNION {{<<x>> \o rest : rest \in InjectiveSeqs(S \ {x}, n - 1)} : x \in S}

RECURSIVE SeqsOf(_, _)
SeqsOf(S, n) ==
  IF n = 0 THEN {<<>>} ELSE {<<x>> \o rest : x \in S, rest \in SeqsOf(S, n - 1)}

\* enums of 1..MaxVariants variants with distinct discriminants, and structs
AdtTypes ==
  UNION {{AdtType(TRUE, [i \in 1..n |-> VariantDef(ds[i], fs[i])]) :
            ds \in InjectiveSeqs(DiscrVals, n), fs \in SeqsOf(FieldCounts, n)} :
         n \in 1..MaxVariants}
  \cup {AdtType(FALSE, <<VariantDef(0, f)>>) : f \in FieldCounts}

\* the arms of a match on the ADT: patterns naming distinct variants
ArmLists(adt) ==
  UNION {InjectiveSeqs(0..(Len(adt.variants) - 1), n) : n \in 1..Len(adt.variants)}

NoAdt == AdtType(FALSE, <<>>)

NoSwitch == [qualifier |-> NoValue, tag |-> Indeterminate, arm |-> NoArm]

EnumInit ==
  /\ edef \in AdtTypes
  /\ \E v \in 0..(Len(edef.variants) - 1) :
     \E args \in SeqsOf(ArgVals, edef.variants[v + 1].nfields) :
     \E arms \in ArmLists(edef) :
       ein = [variant |-> v, args |-> args, arms |-> arms]
  /\ evalue = NoValue
  /\ esel = NoSwitch
  /\ epc = "start"

\* a constructor call V (args) of the ADT is lowered
LowerAdtCtor ==
  /\ epc = "start"
  /\ evalue' = visit_CallExpr(edef, ein.variant, ein.args)
  /\ epc' = "built"
  /\ UNCHANGED <<edef, ein, esel, mvars, lvars, avars, dvars, svars, wvars, cvars>>

\* a match whose scrutinee is the constructed enum value is lowered and run
LowerEnumMatch ==
  /\ epc = "built"
  /\ edef.is_enum
  /\ number_of_variants(edef) > 0
  /\ esel' = visit_MatchExpr(edef, ein.arms, evalue)
  /\ epc' = "matched"
  /\ UNCHANGED <<edef, ein, evalue, mvars, lvars, avars, dvars, svars, wvars, cvars>>

\* ------------------------------------------------------------------------
\* Dynamic dispatch.  The items of a dynamic object are function ids in
\* order; the call site names the function it calls and whether the
\* receiver is a reference.
\* ------------------------------------------------------------------------
FnIds == {1, 2, 3}

\* a faulty scan: the count of passed items starts at one
RECURSIVE ScanItemsFromOne(_, _)
ScanItemsFromOne(items, id) ==
  IF items = <<>> THEN [found |-> FALSE, offs |-> 1]
  ELSE IF Head(items) = id THEN [found |-> TRUE, offs |-> 1]
  ELSE LET rest == ScanItemsFromOne(Tail(items), id) IN
       [found |-> rest.found, offs |-> rest.offs + 1]

\* a faulty scan: the offset of the first lowering is kept, as if slot 0
\* had been cached for every call site
ScanItemsFixedSlot(items, id) ==
  [found |-> \E k \in DOMAIN items : items[k] = id, offs |-> 0]

\* the loop over dyn->get_object_items (): whether an item with the id of
\* fntype was met, and the number of items passed before it
RECURSIVE ScanItems(_, _)
ScanItems(items, id) ==
  IF items = <<>> THEN [found |-> FALSE, offs |-> 0]
  ELSE IF Head(items) = id THEN [found |-> TRUE, offs |-> 0]
  ELSE LET rest == ScanItems(Tail(items), id) IN
       [found |-> rest.found, offs |-> rest.offs + 1]

\* the receiver once "any indirection is sorted out"
DynReceiver(is_ref, receiver_ref) ==
  IF is_ref THEN indirect_expression(DynRecordType, receiver_ref) ELSE receiver_ref

\* CompileExpr::get_fn_addr_from_dyn
get_fn_addr_from_dyn(items, id, is_ref, receiver_ref) ==
  LET scan == ScanItems(items, id) IN
  IF ~scan.found THEN ErrorMark
  ELSE LET receiver == DynReceiver(is_ref, receiver_ref)
           idx == build_int_cst(scan.offs)
           vtable_ptr == struct_field_expression(receiver, 1)
           vtable_array_access ==
             Tree("ARRAY_REF", TREE_TYPE(vtable_ptr).to[1], 0, <<vtable_ptr, idx>>)
       IN Tree("OBJ_TYPE_REF", FnPointer, 0, <<vtable_array_access, receiver, idx>>)

\* CompileExpr::get_receiver_from_dyn
get_receiver_from_dyn(is_ref, receiver_ref) ==
  struct_field_expression(DynReceiver(is_ref, receiver_ref), 0)

\* the item list with the item at position i moved to position j
MoveItem(items, i, j) ==
  LET without == [k \in 1..(Len(items) - 1) |-> IF k < i THEN items[k] ELSE items[k + 1]]
  IN [k \in 1..Len(items) |->
        IF k < j THEN without[k] ELSE IF k = j THEN items[i] ELSE without[k - 1]]

ItemLists == UNION {SeqsOf(FnIds, n) : n \in 0..MaxItems}

DynInit ==
  /\ ditems \in ItemLists
  /\ dcall \in [fn : FnIds, is_ref : BOOLEAN]
  /\ dlog = <<>>

\* the dynamic-dispatch branch of CompileExpr::visit (HIR::MethodCallExpr &):
\* the call site is lowered against the item list as it is now
LowerMethodCall ==
  /\ Len(dlog) < MaxLowerings
  /\ LET self == VarDecl(IF dcall.is_ref THEN PointerType(DynRecordType) ELSE DynRecordType)
     IN dlog' = Append(dlog,
                  [items |-> ditems,
                   fn_expr |-> get_fn_addr_from_dyn(ditems, dcall.fn, dcall.is_ref, self),
                   self |-> get_receiver_from_dyn(dcall.is_ref, self)])
  /\ UNCHANGED <<ditems, dcall, mvars, lvars, avars, evars, svars, wvars, cvars>>

\* between two lowerings an item other than the called one changes place
ReorderItems ==
  /\ Len(dlog) < MaxLowerings
  /\ \E i, j \in DOMAIN ditems :
       /\ i # j
       /\ ditems[i] # dcall.fn
       /\ ditems' = MoveItem(ditems, i, j)
       /\ ditems' # ditems
  /\ UNCHANGED <<dcall, dlog, mvars, lvars, avars, evars, svars, wvars, cvars>>

\* ------------------------------------------------------------------------
\* String literals.  The literal is the sequence of its bytes.
\* ------------------------------------------------------------------------
StrBytes == {97, 98, 99}

UCharType == Ty("UCHAR_TYPE", 0, <<>>)

UsizeType == Ty("USIZE_TYPE", 0, <<>>)

\* TyTyResolveCompile::compile of the type of a string literal, &str
StrFatPointerType == Ty("SLICE_RECORD", 0, <<UCharType>>)

\* Backend::string_constant_expression (val): a constant holding the bytes
string_constant_expression(val) ==
  Tree("STRING_CST", Ty("ARRAY_TYPE", Len(val), <<UCharType>>), val, <<>>)

build_pointer_type(t) == PointerType(t)

\* a faulty size: the terminating NUL of the C string is counted
StringSizeWithNul(str) == Len(str) + 1

\* literal_value.as_string ().size ()
StringSize(str) == Len(str)

\* double_int_to_tree (type, mpz_get_double_int (type, ival, true)) for usize
UsizeCst(ival) == Tree("INTEGER_CST", UsizeType, ival % UsizeRange, <<>>)

\* CompileExpr::compile_string_literal
compile_string_literal(literal_value) ==
  LET fat_pointer == StrFatPointerType
      base == string_constant_expression(literal_value)
      data == address_expression(base, build_pointer_type(TREE_TYPE(base)))
      size == UsizeCst(StringSize(literal_value))
  IN constructor_expression(fat_pointer, -1, <<data, size>>)

StrInit ==
  /\ strlit \in UNION {[1..n -> StrBytes] : n \in 0..MaxStrLen}
  /\ strres = NoValue
  /\ strpc = "start"

\* a string literal expression is compiled
CompileStringLiteral ==
  /\ strpc = "start"
  /\ strres' = compile_string_literal(strlit)
  /\ strpc' = "done"
  /\ UNCHANGED <<strlit, mvars, lvars, avars, evars, dvars, wvars, cvars>>

\* ------------------------------------------------------------------------
\* Lowering of nested expressions.  Besides Path, Lit, Tuple and Match an
\* expression is a Binary, CompoundAssign, Call, MethodCall or ArrayCopied
\* node; elems holds the subexpressions in source order:
\*   Binary, CompoundAssign  <<lhs, rhs>>
\*   Call                    <<fnexpr, argument 0, argument 1, ...>>
\*   MethodCall              <<receiver, argument 0, ...>>
\*   ArrayCopied [e; n]      <<e, n>>
\* ------------------------------------------------------------------------
Node(et, val, elems) == [et |-> et, val |-> val, elems |-> elems, cases |-> <<>>]

\* a statement of a block: n a temporary or a label, val a tree, pat the
\* pattern of a case label, body the statements of a nested block
Stmt(kind, n, val, pat, body) ==
  [kind |-> kind, n |-> n, val |-> val, pat |-> pat, body |-> body]

\* the compile context before a function body is lowered: the block stack
\* holds the block of the function body; stack is what the stack slot of a
\* local variable holds before the variable is assigned
NewContext(const_context) ==
  [blocks |-> <<[id |-> 0, stmts |-> <<>>]>>, nblocks |-> 0, ntemps |-> 0,
   nlabels |-> 0, log |-> <<>>, diags |-> <<>>, trace |-> <<>>,
   const_context |-> const_context, translated |-> NoValue, stack |-> NoValue]

\* Context::add_statement: the statement goes to the innermost block
add_statement(c, stmt) ==
  [c EXCEPT !.blocks[Len(c.blocks)].stmts = Append(@, stmt)]

\* Backend::block followed by Context::push_block
push_block(c) ==
  [c EXCEPT !.nblocks = @ + 1,
            !.blocks = Append(@, [id |-> c.nblocks + 1, stmts |-> <<>>]),
            !.trace = Append(@, [ev |-> "push", id |-> c.nblocks + 1])]

\* the block Context::pop_block returns
top_block(c) == c.blocks[Len(c.blocks)]

\* a faulty pop: the innermost block is reported popped and stays on the stack
PopBlockKeepsTop(c) ==
  [c EXCEPT !.trace = Append(@, [ev |-> "pop", id |-> top_block(c).id])]

\* Context::pop_block: the context once the innermost block is popped
pop_block(c) ==
  [c EXCEPT !.blocks = SubSeq(@, 1, Len(@) - 1),
            !.trace = Append(@, [ev |-> "pop", id |-> top_block(c).id])]

rust_error_at(c, diag) == [c EXCEPT !.diags = Append(@, diag)]

\* Backend::temporary_variable: the context with one more temporary
temporary_variable(c) == [c EXCEPT !.ntemps = @ + 1]

\* Backend::label: the context with one more label
label(c) == [c EXCEPT !.nlabels = @ + 1]

var_expression(tmp) == Tree("VAR_DECL", IntegerType, tmp, <<>>)

TREE_CONSTANT(t) == t.op = "INTEGER_CST"

\* lookup_type on the hirid of a match expression.  The inner matches made
\* by simplify_tuple_match carry the mappings of the match they come from.
MatchType(ty, id) ==
  IF id = 0 THEN [found |-> ty.mfound, unit |-> ty.unit]
  ELSE [found |-> ty.nfound, unit |-> ty.unit]

\* lookup_type on the hirid of a scrutinee expression: a tuple expression
\* has a tuple type, the scrutinee of the outermost match the kind the type
\* context holds for it, every other scrutinee is an integer
ScrutineeType(ty, id, scrutinee) ==
  IF scrutinee.et = "Tuple" THEN [found |-> ty.sfound, kind |-> "TUPLE"]
  ELSE IF id = 0 /\ scrutinee = ty.scrutinee THEN [found |-> ty.sfound, kind |-> ty.skind]
  ELSE [found |-> TRUE, kind |-> "INT"]

is_primitive_type_kind(kind) == kind \in {"INT", "FLOAT"}

\* Backend::unit_expression: the value of type unit
unit_expression == Tree("INTEGER_CST", IntegerType, 0, <<>>)

sorry_at(c, diag) == [c EXCEPT !.diags = Append(@, diag)]

\* a failed rust_assert, gcc_unreachable or a wild pointer followed: the
\* compiler stops with an internal error and no value
internal_error(c) == [c EXCEPT !.translated = InternalError]

\* a stack slot holding no address of a tree
WildPointer == Tree("WILD", ErrorType, 0, <<>>)

\* the result field of a CompileExpr visitor before its handler has run
InitialTranslated == NoValue

\* the null Bvariable pointer
NoTmp == 0

NoPattern == WildcardPattern

RECURSIVE Compile(_, _, _)

\* the expressions es compiled one after another; vals collects the results
RECURSIVE CompileEach(_, _, _, _)
CompileEach(es, ty, c, vals) ==
  IF es = <<>> THEN [c |-> c, vals |-> vals]
  ELSE LET r == Compile(Head(es), ty, c)
       IN CompileEach(Tail(es), ty, r, Append(vals, r.translated))

\* a path expression reads the variable it names
visit_PathInExpression(e, c) ==
  [c EXCEPT !.translated = Tree("PARM_DECL", IntegerType, e.val, <<>>)]

visit_LiteralExpr(e, c) == [c EXCEPT !.translated = build_int_cst(e.val)]

\* a tuple expression compiles its elements in order
visit_TupleExpr(e, ty, c) ==
  LET r == CompileEach(e.elems, ty, c, <<>>)
  IN [r.c EXCEPT !.translated = constructor_expression(ErrorType, -1, r.vals)]

\* CompileExpr::visit (HIR::ArithmeticOrLogicalExpr &), no operator overload
visit_ArithmeticOrLogicalExpr(e, ty, c) ==
  LET lhs == Compile(e.elems[1], ty, c)
      rhs == Compile(e.elems[2], ty, lhs)
  IN [rhs EXCEPT !.translated =
        Tree("BINOP", IntegerType, 0, <<lhs.translated, rhs.translated>>)]

\* CompileExpr::visit (HIR::CompoundAssignmentExpr &), no operator overload
visit_CompoundAssignmentExpr(e, ty, c) ==
  LET lhs == Compile(e.elems[1], ty, c)
      rhs == Compile(e.elems[2], ty, lhs)
      operator_expr == Tree("BINOP", IntegerType, 0, <<lhs.translated, rhs.translated>>)
      assignment == Stmt("assign", NoTmp, Tree("MODIFY_EXPR", IntegerType, 0,
                                                 <<lhs.translated, operator_expr>>),
                         NoPattern, <<>>)
  IN [add_statement(rhs, assignment) EXCEPT !.translated = InitialTranslated]

\* CompileExpr::visit (HIR::CallExpr &), the call of a function: the loop over
\* the arguments runs first, the function expression is compiled after it
visit_CallExpr_fn(e, ty, c) ==
  LET args == CompileEach(Tail(e.elems), ty, c, <<>>)
      fn_address == Compile(Head(e.elems), ty, args.c)
  IN [fn_address EXCEPT !.translated =
        call_expression(IntegerType, <<fn_address.translated>> \o args.vals)]

\* CompileExpr::visit (HIR::MethodCallExpr &), static dispatch
visit_MethodCallExpr(e, ty, c) ==
  LET self == Compile(Head(e.elems), ty, c)
      args == CompileEach(Tail(e.elems), ty, self, <<self.translated>>)
  IN [args.c EXCEPT !.translated = call_expression(IntegerType, args.vals)]

\* CompileExpr::array_copied_expr on [elem; n]: elems = <<elem, n>>
array_copied_expr(e, ty, c) ==
  IF ty.array = "no_domain" THEN [c EXCEPT !.translated = ErrorMark]
  ELSE IF ty.array = "non_const_domain"
  THEN [rust_error_at(c, "non const capacity domain") EXCEPT !.translated = ErrorMark]
  ELSE
    LET cap == Compile(e.elems[2], ty, c)
        capacity_expr == cap.translated
    IN
    IF ~TREE_CONSTANT(capacity_expr)
    THEN [rust_error_at(cap, "non const num copies") EXCEPT !.translated = ErrorMark]
    ELSE
      LET el == Compile(e.elems[1], ty, cap)
          translated_expr == el.translated
          array_type == Ty("ARRAY_TYPE", ArrayCapacity, <<IntegerType>>)
      IN
      IF el.const_context
      THEN [el EXCEPT !.translated =
              Tree("CONSTRUCTOR", array_type, 0,
                   [i \in 1..ArrayCapacity |-> translated_expr])]
      ELSE
        LET pushed == push_block(el)
            stmts == Stmt("array_init", NoTmp, translated_expr, NoPattern, <<>>)
            filled == add_statement(pushed, stmts)
            block == top_block(filled)
            popped == pop_block(filled)
        IN [popped EXCEPT !.translated =
              Tree("COMPOUND_EXPR", array_type, block.id,
                   <<capacity_expr, translated_expr>>)]

\* CompileExpr::visit (HIR::ArrayExpr &) on copied elements
visit_ArrayExpr(e, ty, c) ==
  IF ty.array = "not_array" THEN [c EXCEPT !.translated = ErrorMark]
  ELSE array_copied_expr(e, ty, c)

\* the loop over the patterns of one arm: a case label statement for each
RECURSIVE CompilePatterns(_, _, _)
CompilePatterns(pats, case_label, c) ==
  IF pats = <<>> THEN c
  ELSE CompilePatterns(Tail(pats), case_label,
                       add_statement(c, Stmt("case_label", case_label, NoValue,
                                             Head(pats), <<>>)))

\* the loop over the cases of CompileExpr::visit (HIR::MatchExpr &)
RECURSIVE CompileCases(_, _, _, _, _)
CompileCases(cases, ty, c, tmp, end_label) ==
  IF cases = <<>> THEN c
  ELSE
    LET kase == Head(cases)
        labelled == label(c)
        case_label == labelled.nlabels
        bound == CompilePatterns(kase.pats, case_label, labelled)
        kase_expr_tree == Compile(kase.expr, ty, bound)
        assigned ==
          IF tmp # NoTmp
          THEN add_statement(kase_expr_tree,
                             Stmt("assign", tmp, kase_expr_tree.translated, NoPattern, <<>>))
          ELSE kase_expr_tree
        jumped == add_statement(assigned, Stmt("goto", end_label, NoValue, NoPattern, <<>>))
    IN CompileCases(Tail(cases), ty, jumped, tmp, end_label)

\* a faulty early return: the temporary is declared before the return
TypeNotFoundDeclares(c) ==
  [add_statement(temporary_variable(c),
                 Stmt("decl", c.ntemps + 1, NoValue, NoPattern, <<>>))
     EXCEPT !.translated = ErrorMark]

\* the early return taken when lookup_type fails
TypeNotFound(c) == [c EXCEPT !.translated = ErrorMark]

\* CompileExpr::visit (HIR::MatchExpr &)
CompileMatchExpr(expr, ty, c) ==
  LET scrutinee_expr_tyty == ScrutineeType(ty, expr.val, get_scrutinee_expr(expr))
      expr_tyty == MatchType(ty, expr.val)
      scrutinee_kind == scrutinee_expr_tyty.kind
  IN
  IF ~scrutinee_expr_tyty.found THEN TypeNotFound(c)
  ELSE
    LET reported ==
          IF scrutinee_kind = "FLOAT"
          THEN sorry_at(c, "match on floating-point types is not yet supported")
          ELSE c
    IN
    IF ~expr_tyty.found THEN TypeNotFound(reported)
    ELSE
      LET needs_temp == ~expr_tyty.unit
          declared ==
            IF needs_temp
            THEN add_statement(temporary_variable(reported),
                               Stmt("decl", reported.ntemps + 1, NoValue, NoPattern, <<>>))
            ELSE reported
          tmp == IF needs_temp THEN declared.ntemps ELSE NoTmp
          first == Compile(get_scrutinee_expr(expr), ty, declared)
          is_tuple == ~is_primitive_type_kind(scrutinee_kind) /\ scrutinee_kind = "TUPLE"
          exprtype == get_scrutinee_expr(expr).et
          simplified == is_tuple /\ exprtype = "Tuple"
          outer_match == IF simplified THEN simplify_tuple_match(expr, ty.alloc) ELSE expr
          second == IF simplified THEN Compile(get_scrutinee_expr(outer_match), ty, first)
                    ELSE first
          match_scrutinee_expr == second.translated
          qualifier ==
            IF scrutinee_kind = "ADT" THEN ScrutineeQualifier(match_scrutinee_expr)
            ELSE IF is_tuple /\ exprtype = "Path" THEN first.stack
            ELSE match_scrutinee_expr
          ended == label(second)
          end_label == ended.nlabels
          pushed == push_block(ended)
          body == CompileCases(outer_match.cases, ty, pushed, tmp, end_label)
          match_body == top_block(body)
          popped == pop_block(body)
          switched == add_statement(popped, Stmt("switch", match_body.id, qualifier,
                                                 NoPattern, match_body.stmts))
          closed == add_statement(switched, Stmt("label_def", end_label, NoValue,
                                                 NoPattern, <<>>))
      IN IF is_tuple /\ exprtype \notin {"Tuple", "Path"} THEN internal_error(first)
         ELSE IF outer_match = AbortedMatch THEN internal_error(first)
         ELSE IF qualifier = WildPointer THEN internal_error(popped)
         ELSE [closed EXCEPT !.translated =
                 IF tmp # NoTmp THEN var_expression(tmp) ELSE InitialTranslated]

\* CompileExpr::Compile (expr, ctx): a new visitor visits expr; log records
\* the expressions in the order they are handed to Compile
Compile(e, ty, c) ==
  LET entered == [c EXCEPT !.log = Append(@, e), !.translated = InitialTranslated]
  IN CASE e.et = "Path" -> visit_PathInExpression(e, entered)
       [] e.et = "Lit" -> visit_LiteralExpr(e, entered)
       [] e.et = "Tuple" -> visit_TupleExpr(e, ty, entered)
       [] e.et = "Binary" -> visit_ArithmeticOrLogicalExpr(e, ty, entered)
       [] e.et = "CompoundAssign" -> visit_CompoundAssignmentExpr(e, ty, entered)
       [] e.et = "Call" -> visit_CallExpr_fn(e, ty, entered)
       [] e.et = "MethodCall" -> visit_MethodCallExpr(e, ty, entered)
       [] e.et = "ArrayCopied" -> visit_ArrayExpr(e, ty, entered)
       [] OTHER -> CompileMatchExpr(e, ty, entered)

\* ------------------------------------------------------------------------
\* The expressions lowered
\* ------------------------------------------------------------------------
\* a match nested in another expression: mappings 1, scrutinee variable i
NestedMatch(i) ==
  MatchExpr(1, PathExpr(i), <<MatchCase(1, <<WildcardPattern>>, LitExpr(i))>>)

\* the subexpression at position i of a node
Operands(i) == {PathExpr(i), LitExpr(i), NestedMatch(i)}

OperatorNodes ==
  {Node(et, 0, <<a, b>>) :
     et \in {"Binary", "CompoundAssign", "MethodCall", "ArrayCopied"},
     a \in Operands(1), b \in Operands(2)}
  \cup {Node("Call", 0, <<f, a, b>>) :
          f \in Operands(1), a \in Operands(2), b \in Operands(3)}

\* the result expression of source case i of a match on a variable
ArmExprs(i) ==
  {LitExpr(i),
   Node("CompoundAssign", 0, <<PathExpr(2), LitExpr(i)>>),
   Node("ArrayCopied", 0, <<LitExpr(i), LitExpr(ArrayCapacity)>>),
   MatchExpr(1, PathExpr(2), <<MatchCase(1, <<WildcardPattern>>, LitExpr(i))>>)}

\* a match on the variable 1 with source cases 1..Len(ps)
PathMatch(ps, es) ==
  MatchExpr(0, PathExpr(1), [i \in 1..Len(ps) |-> MatchCase(i, <<ps[i]>>, es[i])])

PathMatches ==
  UNION {{PathMatch(ps, es) : ps \in [1..k -> PatElems],
                              es \in {f \in [1..k -> UNION {ArmExprs(i) : i \in 1..k}] :
                                        \A i \in 1..k : f[i] \in ArmExprs(i)}} :
           k \in 1..MaxCases}

TypeFacts(scrutinee, skind, sfound, mfound, nfound, unit, alloc, array) ==
  [scrutinee |-> scrutinee, skind |-> skind, sfound |-> sfound, mfound |-> mfound,
   nfound |-> nfound, unit |-> unit, alloc |-> alloc, array |-> array]

NoExpr == LitExpr(0)

\* what the type context holds for a match on a variable: every type found,
\* or the type of the scrutinee missing, or the type of the match missing
PathMatchFacts(scrutinee) ==
  {TypeFacts(scrutinee, skind, TRUE, TRUE, nfound, unit, <<>>, "ok") :
     skind \in {"INT", "FLOAT", "ADT"}, nfound \in BOOLEAN, unit \in BOOLEAN}
  \cup {TypeFacts(scrutinee, "INT", FALSE, mfound, TRUE, FALSE, <<>>, "ok") :
          mfound \in BOOLEAN}
  \cup {TypeFacts(scrutinee, skind, TRUE, FALSE, TRUE, unit, <<>>, "ok") :
          skind \in {"INT", "FLOAT"}, unit \in BOOLEAN}

\* a match on the variable 1 of tuple type, with tuple patterns
PathTupleMatches ==
  UNION {{PathMatch(ps, [i \in 1..k |-> LitExpr(i)]) : ps \in [1..k -> ArmPatterns(2)]} :
           k \in 1..MaxCases}

\* what an unassigned local of CompileExpr::visit can hold: no address of a
\* tree, or the address of a tree an earlier call left there
StackValues ==
  {WildPointer, Tree("PARM_DECL", IntegerType, 1, <<>>), build_int_cst(0)}

LowerInit ==
  \/ /\ lexpr \in OperatorNodes
     /\ \E nfound \in BOOLEAN :
        \E array \in {"ok", "no_domain", "non_const_domain", "not_array"} :
          lty = TypeFacts(NoExpr, "INT", TRUE, TRUE, nfound, FALSE, <<>>, array)
     /\ \E const_context \in BOOLEAN : lctx = NewContext(const_context)
     /\ lpc = "start"
  \/ /\ lexpr \in PathMatches
     /\ lty \in PathMatchFacts(get_scrutinee_expr(lexpr))
     /\ \E const_context \in BOOLEAN : lctx = NewContext(const_context)
     /\ lpc = "start"
  \/ /\ lexpr \in PathTupleMatches
     /\ \E unit \in BOOLEAN :
          lty = TypeFacts(get_scrutinee_expr(lexpr), "TUPLE", TRUE, TRUE, TRUE,
                          unit, <<>>, "ok")
     /\ lctx = NewContext(FALSE)
     /\ lpc = "start"
  \/ /\ \E n \in 1..2 : \E k \in 1..MaxCases : \E ps \in [1..k -> ArmPatterns(n)] :
          lexpr = TupleMatch(n, ps)
     /\ \E alloc \in Allocs(Len(lexpr.cases)) : \E unit \in BOOLEAN :
          lty = TypeFacts(get_scrutinee_expr(lexpr), "TUPLE", TRUE, TRUE, TRUE,
                          unit, alloc, "ok")
     /\ lctx = NewContext(FALSE)
     /\ lpc = "start"

\* one expression of a function body is lowered
LowerExpr ==
  /\ lpc = "start"
  /\ \E stack \in StackValues : lctx' = Compile(lexpr, lty, [lctx EXCEPT !.stack = stack])
  /\ lpc' = "done"
  /\ UNCHANGED <<lexpr, lty, mvars, lvars, avars, evars, dvars, svars, cvars>>

\* ------------------------------------------------------------------------
\* Calls.  A function type (TyTy::FnType or TyTy::FnPtr): id the ty_ref,
\* params the parameter types (of a method the type of self first), ret the
\* return type, substs whether has_subsititions_defined ().  Argument k of
\* a call is a path to variable k; actuals[k] is its type.
\* ------------------------------------------------------------------------
FnType(kind, id, params, ret, varadic, substs) ==
  [kind |-> kind, id |-> id, params |-> params, ret |-> ret, varadic |-> varadic,
   substs |-> substs]

\* CompileExpr::Compile of argument k, a path to a variable of type actual
CompileArgument(k, actual) ==
  Tree("PARM_DECL", TyTyResolveCompile("handle", actual), k, <<>>)

\* get_parameter_tyty_at_index (tyty, index, &expected), index from 0
get_parameter_tyty_at_index(tyty, index) == tyty.params[index + 1]

\* a faulty test: every argument of a variadic function is passed as it is
PassedAsIsWhenVariadic(is_varadic, i, required_num_args) == is_varadic

\* the test that sends an argument past coercion, i from 0
PassedAsIs(is_varadic, i, required_num_args) == is_varadic /\ i >= required_num_args

\* the argument loop of a plain call in CompileExpr::visit (HIR::CallExpr &)
CallArguments(tyty, actuals) ==
  LET is_varadic == tyty.kind = "FNDEF" /\ tyty.varadic
      required_num_args == Len(tyty.params)
  IN [k \in 1..Len(actuals) |->
        LET rvalue == CompileArgument(k, actuals[k]) IN
        IF PassedAsIs(is_varadic, k - 1, required_num_args) THEN rvalue
        ELSE coercion_site(rvalue, actuals[k], get_parameter_tyty_at_index(tyty, k - 1))]

\* what a handler hands back: translated, the callee and the operands of the
\* call built, the statements added and the items compiled on the way
Lowered(translated, fn_expr, args, stmts, compiled) ==
  [translated |-> translated, fn_expr |-> fn_expr, args |-> args, stmts |-> stmts,
   compiled |-> compiled]

NotLowered == Lowered(NoValue, NoValue, <<>>, <<>>, <<>>)

\* the compiler stopped on a failed assertion
Stopped(compiled) == Lowered(InternalError, InternalError, <<>>, <<>>, compiled)

\* the address of the function the callee expression names
FnAddress(id) == Tree("ADDR_EXPR", FnPointer, id, <<>>)

\* the plain call of CompileExpr::visit (HIR::CallExpr &): the callee type is
\* a function or a function pointer
visit_CallExpr_call(tyty, actuals) ==
  LET args == CallArguments(tyty, actuals)
      fn_address == FnAddress(tyty.id)
  IN Lowered(call_expression(TyTyResolveCompile("handle", tyty.ret), args),
             fn_address, args, <<>>, <<>>)

\* what the context holds for the function a method or operator resolved
\* to: cached whether lookup_function_decl finds its declaration, impl_item
\* whether lookup_hir_implitem finds an impl item for the resolved symbol,
\* candidates what PathProbeType::Probe returns for the receiver's root,
\* optional whether the trait item has a default body
Resolution(cached, impl_item, candidates, optional) ==
  [cached |-> cached, impl_item |-> impl_item, candidates |-> candidates,
   optional |-> optional]

\* a probe candidate: is_impl_candidate (), and has_subsititions_defined ()
\* and needs_generic_substitutions () of its function type
Candidate(impl, substs, generic) == [impl |-> impl, substs |-> substs, generic |-> generic]

\* CompileInherentImplItem::Compile / CompileTraitItem::Compile (item, ctx,
\* concrete): the item compiled and the type it was made concrete for
CompiledItem(item, concrete) == [item |-> item, concrete |-> concrete]

\* the declaration an item compiles to
DeclId(item) ==
  CASE item = "impl_item" -> 11
    [] item = "candidate" -> 12
    [] item = "trait_item" -> 13

Resolved(fn, compiled) == [fn |-> fn, compiled |-> compiled]

CompileItem(item, concrete) ==
  Resolved(FnAddress(DeclId(item)), <<CompiledItem(item, concrete)>>)

\* a faulty fallback: without a candidate the resolution always fails
DefaultTraitItemFails(fntype, res) == Resolved(InternalError, <<>>)

\* the branch candidates.size () == 0 of resolve_method_address
default_trait_item(fntype, res) ==
  IF ~res.optional THEN Resolved(InternalError, <<>>)
  ELSE CompileItem("trait_item", "fntype")

\* the branch for one or more candidates of resolve_method_address
impl_candidate(fntype, res) ==
  IF Len(res.candidates) # 1 THEN Resolved(InternalError, <<>>)
  ELSE LET candidate == res.candidates[1] IN
       IF ~candidate.impl THEN Resolved(InternalError, <<>>)
       ELSE IF ~candidate.substs THEN CompileItem("candidate", "none")
       ELSE IF candidate.generic THEN CompileItem("candidate", "unified")
       ELSE CompileItem("candidate", "candidate")

\* a faulty resolution: the cache of lowered functions is not looked at
ResolveWithoutCache(fntype, res) ==
  IF res.impl_item
  THEN CompileItem("impl_item", IF ~fntype.substs THEN "none" ELSE "fntype")
  ELSE IF Len(res.candidates) = 0 THEN default_trait_item(fntype, res)
  ELSE impl_candidate(fntype, res)

\* CompileExpr::resolve_method_address
resolve_method_address(fntype, res) ==
  IF res.cached THEN Resolved(FnAddress(fntype.id), <<>>)
  ELSE IF res.impl_item
  THEN CompileItem("impl_item", IF ~fntype.substs THEN "none" ELSE "fntype")
  ELSE IF Len(res.candidates) = 0 THEN default_trait_item(fntype, res)
  ELSE impl_candidate(fntype, res)

\* TyTy::BaseType::get_root (): the type behind the references
RECURSIVE get_root(_)
get_root(t) == IF t.k = "REF" THEN get_root(t.to[1]) ELSE t

\* a call site: kind "call", "method" or "operator", op the operator,
\* receiver the type of the receiver or left operand, actuals the types of
\* the arguments, items the items of the dynamic object, overload whether
\* lookup_operator_overload succeeds, expected the type of the expression
CallSite(kind, op, fntype, receiver, adjustments, actuals, items, resolution, overload,
         expected) ==
  [kind |-> kind, op |-> op, fntype |-> fntype, receiver |-> receiver,
   adjustments |-> adjustments, actuals |-> actuals, items |-> items,
   resolution |-> resolution, overload |-> overload, expected |-> expected]

\* CompileExpr::visit (HIR::MethodCallExpr &)
method_call_expr(site) ==
  LET receiver_expr == VarDecl(TyTyResolveCompile("handle", site.receiver))
      is_ref == site.receiver.k = "REF"
      is_dyn_dispatch == get_root(site.receiver).k = "DYNAMIC"
      resolved ==
        IF is_dyn_dispatch
        THEN Resolved(get_fn_addr_from_dyn(site.items, site.fntype.id, is_ref, receiver_expr),
                      <<>>)
        ELSE resolve_method_address(site.fntype, site.resolution)
      receiver_value ==
        IF is_dyn_dispatch THEN get_receiver_from_dyn(is_ref, receiver_expr)
        ELSE receiver_expr
      self == resolve_adjustements("handle", site.adjustments, receiver_value)
      args ==
        <<self>> \o
        [k \in 1..Len(site.actuals) |->
           coercion_site(CompileArgument(k, site.actuals[k]), site.actuals[k],
                         site.fntype.params[k + 1])]
  IN IF resolved.fn = InternalError \/ self = InternalError
     THEN Stopped(resolved.compiled)
     ELSE Lowered(call_expression(TyTyResolveCompile("handle", site.fntype.ret), args),
                  resolved.fn, args, <<>>, resolved.compiled)

\* a faulty overload call: the left operand is passed as it is
OverloadWithoutAdjustments(site, lhs, rhs) ==
  LET resolved == resolve_method_address(site.fntype, site.resolution)
      args == IF rhs # NoValue THEN <<lhs, rhs>> ELSE <<lhs>>
  IN IF resolved.fn = InternalError THEN Stopped(resolved.compiled)
     ELSE Lowered(call_expression(TyTyResolveCompile("handle", site.fntype.ret), args),
                  resolved.fn, args, <<>>, resolved.compiled)

\* CompileExpr::resolve_operator_overload; rhs is NoValue for a null rhs
resolve_operator_overload(site, lhs, rhs) ==
  LET resolved == resolve_method_address(site.fntype, site.resolution)
      self == resolve_adjustements("handle", site.adjustments, lhs)
      args == IF rhs # NoValue THEN <<self, rhs>> ELSE <<self>>
  IN IF resolved.fn = InternalError \/ self = InternalError
     THEN Stopped(resolved.compiled)
     ELSE Lowered(call_expression(TyTyResolveCompile("handle", site.fntype.ret), args),
                  resolved.fn, args, <<>>, resolved.compiled)

\* the operands of an operator expression: paths to the variables 1 and 2
LeftOperand(site) == CompileArgument(1, site.receiver)

RightOperand == CompileArgument(2, TyInt)

\* Backend::arithmetic_or_logical_expression (op, lhs, rhs, locus)
arithmetic_or_logical_expression(lhs, rhs) == Tree("BINOP", IntegerType, 0, <<lhs, rhs>>)

\* The handlers of the operator expressions.  overload_call is what
\* resolve_operator_overload returns for the operands of the expression;
\* a handler looks at it only where lookup_operator_overload succeeds.

\* CompileExpr::visit (HIR::ArithmeticOrLogicalExpr &)
visit_ArithmeticOrLogicalExpr_op(site, overload_call) ==
  IF site.overload THEN overload_call
  ELSE Lowered(arithmetic_or_logical_expression(LeftOperand(site), RightOperand),
               NoValue, <<>>, <<>>, <<>>)

\* CompileExpr::visit (HIR::CompoundAssignmentExpr &): the call, or the
\* assignment, is a statement and translated is not assigned
visit_CompoundAssignmentExpr_op(site, overload_call) ==
  IF site.overload
  THEN IF overload_call.translated = InternalError THEN overload_call
       ELSE Lowered(NoValue, overload_call.fn_expr, overload_call.args,
                    <<overload_call.translated>>, overload_call.compiled)
  ELSE Lowered(NoValue, NoValue, <<>>,
               <<Tree("MODIFY_EXPR", IntegerType, 0,
                      <<LeftOperand(site),
                        arithmetic_or_logical_expression(LeftOperand(site), RightOperand)>>)>>,
               <<>>)

\* CompileExpr::visit (HIR::NegationExpr &)
visit_NegationExpr(site, overload_call) ==
  IF site.overload THEN overload_call
  ELSE Lowered(Tree("NEGATE_EXPR", IntegerType, 0, <<LeftOperand(site)>>),
               NoValue, <<>>, <<>>, <<>>)

\* CompileExpr::visit (HIR::DereferenceExpr &)
visit_DereferenceExpr(site, overload_call) ==
  LET r == IF site.overload THEN overload_call
           ELSE Lowered(LeftOperand(site), NoValue, <<>>, <<>>, <<>>)
      main_expr == r.translated
      expected_type == TyTyResolveCompile("handle", site.expected)
  IN IF main_expr = InternalError THEN r
     ELSE IF SLICE_TYPE_P(TREE_TYPE(main_expr)) /\ SLICE_TYPE_P(expected_type) THEN r
     ELSE [r EXCEPT !.translated = indirect_expression(expected_type, main_expr)]

\* CompileExpr::visit (HIR::ArrayIndexExpr &)
visit_ArrayIndexExpr(site, overload_call) ==
  IF site.overload
  THEN LET operator_overload_call == overload_call.translated
           can_indirect == TREE_TYPE(operator_overload_call).k = "POINTER_TYPE"
       IN IF operator_overload_call = InternalError \/ ~can_indirect THEN overload_call
          ELSE [overload_call EXCEPT !.translated =
                  indirect_expression(TyTyResolveCompile("handle", site.expected),
                                      operator_overload_call)]
  ELSE LET array_reference ==
             IF site.receiver.k = "REF"
             THEN indirect_expression(TyTyResolveCompile("handle", site.receiver.to[1]),
                                      LeftOperand(site))
             ELSE LeftOperand(site)
       IN Lowered(Tree("ARRAY_REF", IntegerType, 0, <<array_reference, RightOperand>>),
                  NoValue, <<>>, <<>>, <<>>)

\* the operators with one operand pass a null rhs
IsUnary(op) == op \in {"Negation", "Dereference"}

\* the handler the visitor selects for an operator expression
visit_OperatorExpr(site) ==
  LET overload_call ==
        resolve_operator_overload(site, LeftOperand(site),
                                  IF IsUnary(site.op) THEN NoValue ELSE RightOperand)
  IN IF site.op = "Arithmetic" THEN visit_ArithmeticOrLogicalExpr_op(site, overload_call)
     ELSE IF site.op = "CompoundAssignment"
     THEN visit_CompoundAssignmentExpr_op(site, overload_call)
     ELSE IF site.op = "Negation" THEN visit_NegationExpr(site, overload_call)
     ELSE IF site.op = "Dereference" THEN visit_DereferenceExpr(site, overload_call)
     ELSE visit_ArrayIndexExpr(site, overload_call)

\* ------------------------------------------------------------------------
\* The call sites lowered
\* ------------------------------------------------------------------------
MaxArgs == 2

ArgTypes == {TyInt, TyRef(TyInt)}

NoFnType == FnType("FNDEF", 0, <<>>, TyInt, FALSE, FALSE)

NoResolution == Resolution(FALSE, FALSE, <<>>, FALSE)

\* a function or function pointer and type-correct arguments for it: as
\* many as parameters, and more only for a variadic function
PlainCalls ==
  UNION {UNION {
    {CallSite("call", "none", FnType(kind, 1, params, TyInt, varadic, FALSE), TyInt, <<>>,
              actuals, <<>>, NoResolution, FALSE, TyInt) :
       actuals \in UNION {[1..a -> ArgTypes] :
                            a \in n..(IF varadic THEN MaxArgs + 1 ELSE n)},
       kind \in IF varadic THEN {"FNDEF"} ELSE {"FNDEF", "FNPTR"}} :
    params \in [1..n -> ArgTypes], varadic \in BOOLEAN} : n \in 0..MaxArgs}

Candidates ==
  {<<>>, <<Candidate(TRUE, FALSE, FALSE), Candidate(TRUE, FALSE, FALSE)>>}
  \cup {<<Candidate(impl, substs, generic)>> : impl, substs, generic \in BOOLEAN}

Resolutions ==
  {Resolution(cached, impl_item, candidates, optional) :
     cached, impl_item, optional \in BOOLEAN, candidates \in Candidates}

\* a method of the receiver's type with at most one argument
MethodCalls ==
  UNION {
    {CallSite("method", "none",
              FnType("FNDEF", 1, <<TyRef(receiver), TyInt>>, TyInt, FALSE, substs),
              receiver, adjustments, actuals, <<>>, resolution, FALSE, TyInt) :
       adjustments \in AdjustmentLists(receiver, 1),
       actuals \in {<<>>} \cup {<<t>> : t \in ArgTypes}, resolution \in Resolutions,
       substs \in BOOLEAN} :
    receiver \in {TyInt, TyRef(TyInt)}}

\* a method of a trait object: the receiver is the object or a reference to
\* it, and the object is borrowed for a method that takes &self
DynMethodCalls ==
  {CallSite("method", "none", FnType("FNDEF", 1, <<TyRef(TyDyn), TyInt>>, TyInt, FALSE, FALSE),
            site.receiver, site.adjustments, actuals, items, NoResolution, FALSE, TyInt) :
     site \in {[receiver |-> TyRef(TyDyn), adjustments |-> <<>>],
               [receiver |-> TyDyn, adjustments |-> <<>>],
               [receiver |-> TyDyn,
                adjustments |-> <<Adjustment("IMM_REF", TyRef(TyDyn), TyInt, FALSE)>>]},
     actuals \in {<<>>} \cup {<<t>> : t \in ArgTypes},
     items \in {<<1>>, <<2, 1>>, <<2>>}}

OperatorKinds == {"Arithmetic", "CompoundAssignment", "Negation", "Dereference", "Index"}

OperatorExprs ==
  UNION {
    {CallSite("operator", op, FnType("FNDEF", 1, <<TyRef(receiver), TyInt>>, ret, FALSE, FALSE),
              receiver, adjustments, <<>>, <<>>,
              Resolution(cached, TRUE, <<>>, FALSE), overload, expected) :
       op \in OperatorKinds, adjustments \in AdjustmentLists(receiver, 1),
       ret \in {TyInt, TyRef(TyInt), TyRef(TySlice)}, cached, overload \in BOOLEAN,
       expected \in {TyInt, TySlice}} :
    receiver \in {TyInt, TyAdt(TyInt), TyRef(TyInt)}}

CallInit ==
  /\ cin \in PlainCalls \cup MethodCalls \cup DynMethodCalls \cup OperatorExprs
  /\ cout = NotLowered
  /\ cpc = "start"

\* a plain call expression is lowered
VisitCallExpr ==
  /\ cpc = "start"
  /\ cin.kind = "call"
  /\ cout' = visit_CallExpr_call(cin.fntype, cin.actuals)
  /\ cpc' = "done"
  /\ UNCHANGED <<cin, mvars, lvars, avars, evars, dvars, svars, wvars>>

\* a method call expression is lowered
VisitMethodCallExpr ==
  /\ cpc = "start"
  /\ cin.kind = "method"
  /\ cout' = method_call_expr(cin)
  /\ cpc' = "done"
  /\ UNCHANGED <<cin, mvars, lvars, avars, evars, dvars, svars, wvars>>

\* an operator expression is lowered
VisitOperatorExpr ==
  /\ cpc = "start"
  /\ cin.kind = "operator"
  /\ cout' = visit_OperatorExpr(cin)
  /\ cpc' = "done"
  /\ UNCHANGED <<cin, mvars, lvars, avars, evars, dvars, svars, wvars>>

\* ------------------------------------------------------------------------
\* Specifications: one per part of the lowering, the others stay idle
\* ------------------------------------------------------------------------
MatchIdle == mexpr = NoMatch /\ mmap = <<>> /\ mout = NoMatch /\ mpc = "idle"

LitIdle == litstr = <<>> /\ litty = "none" /\ litres = NoTree /\ litpc = "idle"

AdjIdle ==
  /\ aworld = "none"
  /\ ain = [value |-> NoValue, tyty |-> TyInt, adjustments |-> <<>>, found |-> FALSE]
  /\ atrace = <<>>
  /\ ares = NoValue
  /\ apc = "idle"

EnumIdle ==
  /\ edef = NoAdt
  /\ ein = [variant |-> 0, args |-> <<>>, arms |-> <<>>]
  /\ evalue = NoValue
  /\ esel = NoSwitch
  /\ epc = "idle"

StrIdle == strlit = <<>> /\ strres = NoValue /\ strpc = "idle"

DynIdle == ditems = <<>> /\ dcall = [fn |-> 0, is_ref |-> FALSE] /\ dlog = <<>>

LowerIdle ==
  /\ lexpr = NoExpr
  /\ lty = TypeFacts(NoExpr, "INT", TRUE, TRUE, TRUE, FALSE, <<>>, "ok")
  /\ lctx = NewContext(FALSE)
  /\ lpc = "idle"

CallIdle ==
  /\ cin = CallSite("none", "none", NoFnType, TyInt, <<>>, <<>>, <<>>, NoResolution, FALSE, TyInt)
  /\ cout = NotLowered
  /\ cpc = "idle"

InitMatch == MatchInit /\ LitIdle /\ AdjIdle /\ EnumIdle /\ DynIdle /\ StrIdle /\ LowerIdle /\ CallIdle

NextMatch == MatchSimplify

SpecMatch == InitMatch /\ [][NextMatch]_vars

InitLit ==
  /\ (LitInit /\ StrIdle) \/ (LitIdle /\ StrInit)
  /\ MatchIdle /\ AdjIdle /\ EnumIdle /\ DynIdle /\ LowerIdle /\ CallIdle

NextLit == CompileIntegerLiteral \/ CompileStringLiteral

SpecLit == InitLit /\ [][NextLit]_vars

InitAdj == AdjInit /\ MatchIdle /\ LitIdle /\ EnumIdle /\ DynIdle /\ StrIdle /\ LowerIdle /\ CallIdle

NextAdj == ResolveAdjustments \/ VisitBorrowExpr

SpecAdj == InitAdj /\ [][NextAdj]_vars

InitEnum == EnumInit /\ MatchIdle /\ LitIdle /\ AdjIdle /\ DynIdle /\ StrIdle /\ LowerIdle /\ CallIdle

NextEnum == LowerAdtCtor \/ LowerEnumMatch

SpecEnum == InitEnum /\ [][NextEnum]_vars

InitDyn == DynInit /\ MatchIdle /\ LitIdle /\ AdjIdle /\ EnumIdle /\ StrIdle /\ LowerIdle /\ CallIdle

NextDyn == LowerMethodCall \/ ReorderItems

SpecDyn == InitDyn /\ [][NextDyn]_vars

InitLower == LowerInit /\ MatchIdle /\ LitIdle /\ AdjIdle /\ EnumIdle /\ DynIdle /\ StrIdle /\ CallIdle

NextLower == LowerExpr

SpecLower == InitLower /\ [][NextLower]_vars

InitCall == CallInit /\ MatchIdle /\ LitIdle /\ AdjIdle /\ EnumIdle /\ DynIdle /\ StrIdle /\ LowerIdle

NextCall == VisitCallExpr \/ VisitMethodCallExpr \/ VisitOperatorExpr

SpecCall == InitCall /\ [][NextCall]_vars

\* ------------------------------------------------------------------------
\* Claims on literals
\* ------------------------------------------------------------------------
\* a well-formed decimal literal: an optional sign and one digit or more
WellFormedDecimal(str) ==
  LET ds == IF str # <<>> /\ str[1] = "-" THEN Tail(str) ELSE str IN
  ds # <<>> /\ \A k \in 1..Len(ds) : ds[k] \in Digits

RECURSIVE Pow10(_)
Pow10(n) == IF n = 0 THEN 1 ELSE 10 * Pow10(n - 1)

RECURSIVE PositionalSum(_, _)
PositionalSum(ds, k) ==
  IF k > Len(ds) THEN 0
  ELSE DigitValue(ds[k]) * Pow10(Len(ds) - k) + PositionalSum(ds, k + 1)

\* the number a well-formed decimal literal denotes
Denotes(str) ==
  IF str[1] = "-" THEN 0 - PositionalSum(Tail(str), 1) ELSE PositionalSum(str, 1)

\* C5: a well-formed decimal integer literal L of integer type T compiles to
\* a constant (of value L and type T) iff type_min(T) <= L <= type_max(T), and
\* otherwise to the error value with the overflow diagnostic.
C5_IntegerLiteralBounds ==
  (litpc = "done" /\ WellFormedDecimal(litstr)) =>
    LET L == Denotes(litstr)
        lo == IF litty = "u8" THEN 0 ELSE -128
        hi == IF litty = "u8" THEN 255 ELSE 127
    IN /\ (litres.node = "integer_cst") <=> (lo <= L /\ L <= hi)
       /\ litres.node = "integer_cst" => (litres.val = L /\ litres.ty = litty)
       /\ litres.node # "integer_cst" =>
            litres = error_mark_node("integer overflows the respective type")

\* the literals at and next to the bounds were compiled: 127, 128, -128,
\* -129 as i8 and 255, 256, 0, -1 as u8
Compiled(str, ty, node) ==
  litpc = "done" /\ litstr = str /\ litty = ty /\ litres.node = node

C5_Witness == Compiled(<<"1", "2", "8">>, "i8", "error")

\* C11: a string literal compiles to the aggregate {data, length}, in that
\* order: data is the address of a constant holding the bytes of the
\* literal, length is the number of bytes of the literal, of type usize.
C11_StringLiteralIsDataThenLength ==
  strpc = "done" =>
    /\ strres.op = "CONSTRUCTOR"
    /\ Len(strres.args) = 2
    /\ strres.args[1].op = "ADDR_EXPR"
    /\ strres.args[1].args[1].op = "STRING_CST"
    /\ strres.args[1].args[1].val = strlit
    /\ strres.args[2].op = "INTEGER_CST"
    /\ TREE_TYPE(strres.args[2]) = UsizeType
    /\ strres.args[2].val = Cardinality(DOMAIN strlit)

\* the literal "abc" was compiled, with length 3
C11_Witness ==
  strpc = "done" /\ strlit = <<97, 98, 99>> /\ strres.args[2].val = 3

\* ------------------------------------------------------------------------
\* Claims on the tuple-match decomposition
\* ------------------------------------------------------------------------

\* C1: on every scrutinee value the nested match returned by
\* simplify_tuple_match selects the same case (and so gives the same result)
\* as the original match under a first-matching-case matcher.
C1_DecompositionPreservesSemantics ==
  mpc = "done" =>
    \A env \in Envs(ScrutineeVars(mexpr)) : Eval(mout, env) = Eval(mexpr, env)

\* C2: cases whose first tuple-pattern elements are structurally equal land
\* under one key, so no two keys of the map hold equal patterns and the outer
\* match has exactly one case per distinct first pattern.
C2_OneKeyPerDistinctFirst ==
  mpc = "done" =>
    /\ \A i, j \in 1..Len(mmap) : i # j => mmap[i].first # mmap[j].first
    /\ Len(mout.cases) = Cardinality({mmap[k].first : k \in 1..Len(mmap)})

\* the rest pattern of a source tuple pattern, read off the source
SourceRest(items) ==
  IF Len(items) = 2 THEN items[2]
  ELSE TuplePattern([k \in 1..(Len(items) - 1) |-> items[k + 1]])

\* c is source case c.id of the match with its first tuple item removed
IsSourceCase(c, first) ==
  /\ c.id \in 1..Len(mexpr.cases)
  /\ LET s == mexpr.cases[c.id] IN
       /\ s.pats[1].pt = "TUPLE" /\ s.pats[1].itype = "MULTIPLE"
       /\ s.pats[1].items[1] = first
       /\ c.pats = <<SourceRest(s.pats[1].items)>>
       /\ c.expr = s.expr

InSourceOrder(cs) == \A a, b \in 1..Len(cs) : a < b => cs[a].id < cs[b].id

C4_OuterCasesInInsertionOrder ==
  mpc = "done" =>
    /\ Len(mout.cases) = Len(mmap)
    /\ \A k \in 1..Len(mmap) : mout.cases[k].pats = <<mmap[k].first>>
    /\ \A a, b \in 1..Len(mmap) : a < b => mmap[a].cases[1].id < mmap[b].cases[1].id

\* ------------------------------------------------------------------------
\* Claims on adjustments and borrows
\* ------------------------------------------------------------------------
LastAdjustment == ain.adjustments[Len(ain.adjustments)]

\* C6: for a non-empty adjustment sequence the value resolve_adjustements
\* returns has the type that the last adjustment declares as expected.
C6_FinalTypeIsLastExpected ==
  (apc = "adjusted" /\ ain.adjustments # <<>>) =>
    TREE_TYPE(ares) = TyTyResolveCompile(aworld, LastAdjustment.expected)

\* the value before step k of the adjustment sequence
ValueBefore(k) == IF k = 1 THEN ain.value ELSE atrace[k - 1]

IsAddressOf(after, before, ptrtype) ==
  after.op = "ADDR_EXPR" /\ after.args = <<before>> /\ TREE_TYPE(after) = ptrtype

\* every Borrow step leaves a slice-typed value as it is and takes the
\* address of any other value once, to the expected pointer type
BorrowStepsOk ==
  apc = "adjusted" =>
    \A k \in 1..Len(atrace) :
      IsBorrow(ain.adjustments[k]) =>
        IF SLICE_TYPE_P(TREE_TYPE(ValueBefore(k)))
        THEN atrace[k] = ValueBefore(k)
        ELSE IsAddressOf(atrace[k], ValueBefore(k),
                         TyTyResolveCompile(aworld, ain.adjustments[k].expected))

BorrowExprPtrType == TyTyResolveCompile(aworld, TyRef(ain.tyty))

BuiltVariant == edef.variants[ein.variant + 1]

\* C8: the switch discriminant of a match on an enum value is field 0 of
\* field 0 of the scrutinee, whatever the variant; the tag read there is the
\* discriminant the constructor stored, and the arm the switch selects is
\* the arm of the built variant (no arm when the match has none for it).
C8_TagReadWhereCtorStoresIt ==
  epc = "matched" =>
    /\ esel.qualifier.op = "COMPONENT_REF" /\ esel.qualifier.val = 0
    /\ esel.qualifier.args[1].op = "COMPONENT_REF" /\ esel.qualifier.args[1].val = 0
    /\ esel.qualifier.args[1].args = <<evalue>>
    /\ evalue.args[1] = build_int_cst(BuiltVariant.discr)
    /\ esel.tag = BuiltVariant.discr
    /\ esel.arm # NoArm => ein.arms[esel.arm] = ein.variant
    /\ (\E a \in DOMAIN ein.arms : ein.arms[a] = ein.variant) => esel.arm # NoArm

\* the second variant of an enum, with fields and a discriminant that is not
\* its index, was built and the match selected its arm, which is not the
\* first arm
C8_Witness ==
  /\ epc = "matched"
  /\ ein.variant = 1
  /\ BuiltVariant.nfields >= 1
  /\ BuiltVariant.discr = 5
  /\ esel.arm = 2

\* ------------------------------------------------------------------------
\* Claims on dynamic dispatch
\* ------------------------------------------------------------------------
\* the positions of the called function in an item list
Hits(items) == {k \in DOMAIN items : items[k] = dcall.fn}

\* the position of the first one, from 0; -1 when there is none
FirstPosition(items) ==
  IF Hits(items) = {} THEN -1
  ELSE (CHOOSE k \in Hits(items) : \A h \in Hits(items) : k <= h) - 1

RECURSIVE HasVtableAccess(_)
HasVtableAccess(t) ==
  \/ t.op \in {"ARRAY_REF", "OBJ_TYPE_REF"}
  \/ \E k \in DOMAIN t.args : HasVtableAccess(t.args[k])

\* C9: the vtable index of a lowered dynamic call is the position of the
\* first item whose id is the id of the called function; the callee reads
\* that slot of the vtable held in field 1 of the receiver; when no item
\* matches the callee is the error value and holds no vtable access.
C9_IndexIsFirstMatch ==
  \A n \in DOMAIN dlog :
    LET r == dlog[n].fn_expr IN
    IF Hits(dlog[n].items) = {}
    THEN r = ErrorMark /\ ~HasVtableAccess(r)
    ELSE /\ r.op = "OBJ_TYPE_REF"
         /\ r.args[3] = build_int_cst(FirstPosition(dlog[n].items))
         /\ r.args[1].op = "ARRAY_REF"
         /\ r.args[1].args[2] = r.args[3]
         /\ r.args[1].args[1] = struct_field_expression(r.args[2], 1)

\* the called function is twice in the item list, first at the second place
C9_Witness ==
  \E n \in DOMAIN dlog :
    /\ Cardinality(Hits(dlog[n].items)) = 2
    /\ FirstPosition(dlog[n].items) = 1
    /\ dlog[n].fn_expr.op = "OBJ_TYPE_REF"

\* C10 as stated: the offset is resolved once and kept, so every lowering of
\* the call site yields the callee of the first lowering, whatever happened
\* to the order of the other items in between.
C10_OffsetResolvedOnce ==
  \A n \in DOMAIN dlog : dlog[n].fn_expr = dlog[1].fn_expr

\* C10 amended: nothing is kept; each lowering scans the item list as it is
\* then, so two lowerings of the call site yield the same callee exactly
\* when the called function has the same first position in both item lists.
C10_OffsetRecomputedEachLowering ==
  \A m, n \in DOMAIN dlog :
    (dlog[m].fn_expr = dlog[n].fn_expr) <=>
      (FirstPosition(dlog[m].items) = FirstPosition(dlog[n].items))

\* the call site was lowered twice with another item moved in between, and
\* the second lowering has another offset
C10_Witness ==
  /\ Len(dlog) = 2
  /\ dlog[1].items # dlog[2].items
  /\ dlog[1].fn_expr.op = "OBJ_TYPE_REF" /\ dlog[2].fn_expr.op = "OBJ_TYPE_REF"
  /\ dlog[1].fn_expr.args[3] # dlog[2].fn_expr.args[3]

\* ------------------------------------------------------------------------
\* Claims on the lowering of nested expressions
\* ------------------------------------------------------------------------
\* the block stack a sequence of push and pop events leaves, started from
\* stack; ok is FALSE when a pop does not remove the block pushed last
RECURSIVE Replay(_, _)
Replay(trace, stack) ==
  IF trace = <<>> THEN [ok |-> TRUE, stack |-> stack]
  ELSE IF Head(trace).ev = "push"
  THEN IF Head(trace).id \in {stack[k] : k \in 1..Len(stack)}
       THEN [ok |-> FALSE, stack |-> stack]
       ELSE Replay(Tail(trace), Append(stack, Head(trace).id))
  ELSE IF stack # <<>> /\ stack[Len(stack)] = Head(trace).id
  THEN Replay(Tail(trace), SubSeq(stack, 1, Len(stack) - 1))
  ELSE [ok |-> FALSE, stack |-> stack]

Pushes(trace) == {k \in 1..Len(trace) : trace[k].ev = "push"}

\* the lowerings in the log that may introduce a block
BlockLowerings(log) == {k \in 1..Len(log) : log[k].et \in {"Match", "ArrayCopied"}}

\* the statements an arm of a match can emit
ArmStatementKinds == {"case_label", "goto", "assign", "array_init"}

C13_TypeNotFoundYieldsErrorOnly ==
  (lpc = "done" /\ lexpr.et = "Match" /\ (~lty.sfound \/ ~lty.mfound)) =>
    /\ lctx.translated = ErrorMark
    /\ lctx.blocks = NewContext(lctx.const_context).blocks
    /\ lctx.ntemps = 0
    /\ lctx.trace = <<>>

\* a match with a result that is not unit whose own type is not found
C13_Witness ==
  /\ lpc = "done"
  /\ lexpr.et = "Match"
  /\ lty.sfound /\ ~lty.mfound /\ ~lty.unit
  /\ lctx.translated = ErrorMark

\* the statements of a block and of the switch bodies nested in it
RECURSIVE AllStatements(_)
AllStatements(stmts) ==
  IF stmts = <<>> THEN <<>>
  ELSE <<Head(stmts)>> \o AllStatements(Head(stmts).body) \o AllStatements(Tail(stmts))

StatementKinds(stmts) ==
  {AllStatements(stmts)[k].kind : k \in 1..Len(AllStatements(stmts))}

\* C14: a match on a floating-point scrutinee is rejected: the 'not yet
\* supported' diagnostic is reported and no switch, no case label and no arm
\* statement is built for the match.
C14_FloatMatchRejected ==
  (lpc = "done" /\ lexpr.et = "Match" /\ lty.sfound /\ lty.skind = "FLOAT") =>
    /\ lctx.diags = <<"match on floating-point types is not yet supported">>
    /\ StatementKinds(lctx.blocks[1].stmts) \cap ({"switch"} \cup ArmStatementKinds) = {}

\* the positions at which expression e was handed to Compile
CompiledAt(e) == {k \in 1..Len(lctx.log) : lctx.log[k] = e}

FirstCompiledAt(e) == CHOOSE k \in CompiledAt(e) : \A j \in CompiledAt(e) : k <= j

\* C15: a handler lowers the subexpressions of its node in source order:
\* left operand before right, callee before arguments and arguments by
\* index, receiver before arguments, array-copy element before count.
C15_SubexpressionsLeftToRight ==
  (lpc = "done" /\ lexpr.et \in {"Binary", "CompoundAssign", "Call", "MethodCall", "ArrayCopied"}) =>
    \A i, j \in 1..Len(lexpr.elems) :
      (i < j /\ CompiledAt(lexpr.elems[i]) # {} /\ CompiledAt(lexpr.elems[j]) # {}) =>
        FirstCompiledAt(lexpr.elems[i]) < FirstCompiledAt(lexpr.elems[j])

\* the scrutinee of a match and, for a tuple expression, its elements
ScrutineeParts(scrutinee) ==
  {scrutinee} \cup {scrutinee.elems[k] : k \in 1..Len(scrutinee.elems)}

\* C16: lowering one match compiles its scrutinee and every element of a
\* tuple scrutinee, the head included, exactly once.
C16_ScrutineeLoweredOnce ==
  (lpc = "done" /\ lexpr.et = "Match" /\ lty.sfound /\ lty.mfound) =>
    \A part \in ScrutineeParts(get_scrutinee_expr(lexpr)) :
      Cardinality(CompiledAt(part)) = 1

\* the statements the match lexpr appended to the enclosing block
OwnStatements == lctx.blocks[1].stmts

\* the temporaries declared in the enclosing block
DeclaredTemps == {OwnStatements[k].n : k \in {j \in 1..Len(OwnStatements) : OwnStatements[j].kind = "decl"}}

\* C17: a match allocates a temporary iff its result type is not unit; its
\* value is a read of the temporary when there is one and the unit value
\* when there is none.
C17_ValueIsTempOrUnit ==
  (lpc = "done" /\ lexpr.et = "Match" /\ lty.sfound /\ lty.mfound) =>
    /\ (DeclaredTemps # {}) <=> ~lty.unit
    /\ Cardinality(DeclaredTemps) <= 1
    /\ \A tmp \in DeclaredTemps : lctx.translated = var_expression(tmp)
    /\ DeclaredTemps = {} => lctx.translated = unit_expression

\* the switch statement of the match lexpr
OwnSwitch == OwnStatements[CHOOSE k \in 1..Len(OwnStatements) : OwnStatements[k].kind = "switch"]

\* the source cases in the order in which their results are assigned in a
\* sequence of statements; the result of source case i is the literal i
RECURSIVE CaseOrder(_)
CaseOrder(stmts) ==
  IF stmts = <<>> THEN <<>>
  ELSE (IF Head(stmts).kind = "assign" /\ Head(stmts).val.op = "INTEGER_CST"
        THEN <<Head(stmts).val.val>> ELSE <<>>)
       \o CaseOrder(Head(stmts).body) \o CaseOrder(Tail(stmts))

\* the last statement of each case of a switch body: the one before the next
\* case label, and the last one of the body
CaseEnds(body) ==
  {k \in 1..Len(body) : k = Len(body) \/ body[k + 1].kind = "case_label"}

\* C18: in the switch body the cases are in source order; a case is its case
\* label, the statements of its result, the assignment to the temporary when
\* there is one, and a jump to the end label of the match; the switch and
\* then the end label follow the cases in the enclosing block, and every
\* case assigns the temporary once.
C18_SwitchBodyInSourceOrder ==
  (lpc = "done" /\ lexpr.et = "Match" /\ lty.sfound /\ lty.mfound /\ ~lty.unit
     /\ \A i \in 1..Len(lexpr.cases) : lexpr.cases[i].expr.et = "Lit") =>
    LET n == Len(OwnStatements)
        body == OwnSwitch.body
        end_label == OwnStatements[n].n
        tmp == CHOOSE t \in DeclaredTemps : TRUE
    IN /\ n >= 2
       /\ OwnStatements[n - 1].kind = "switch"
       /\ OwnStatements[n].kind = "label_def"
       /\ CaseOrder(body) = [i \in 1..Len(lexpr.cases) |-> i]
       /\ body # <<>> => body[1].kind = "case_label"
       /\ \A k \in CaseEnds(body) :
            /\ body[k].kind = "goto" /\ body[k].n = end_label
            /\ k > 1 /\ body[k - 1].kind = "assign" /\ body[k - 1].n = tmp
       /\ \A k \in 1..Len(body) :
            (body[k].kind = "assign" /\ body[k].n = tmp) => k + 1 \in CaseEnds(body)
       /\ \A k \in 1..Len(body) : body[k].kind # "label_def" \/ body[k].n # end_label

\* ------------------------------------------------------------------------
\* Claims on the recursion of simplify_tuple_match
\* ------------------------------------------------------------------------
Max(S) == CHOOSE x \in S : \A y \in S : y <= x

\* the depth to which matches are nested in e: a call of
\* simplify_tuple_match at recursion depth d returns the matches of
\* nesting level d + 1
RECURSIVE MatchDepth(_)
MatchDepth(e) ==
  IF e.et # "Match" THEN 0
  ELSE 1 + Max({0} \cup {MatchDepth(e.cases[k].expr) : k \in 1..Len(e.cases)})

ArityOf(e) == IF e.et = "Tuple" THEN Len(e.elems) ELSE 1

\* the matches at nesting level d of e have leaves[d] as scrutinee
RECURSIVE LevelsOk(_, _, _)
LevelsOk(e, leaves, d) ==
  \/ e.et # "Match"
  \/ /\ d <= Len(leaves)
     /\ get_scrutinee_expr(e) = leaves[d]
     /\ \A k \in 1..Len(e.cases) : LevelsOk(e.cases[k].expr, leaves, d + 1)

C20_SecondCallYieldsEqualResult ==
  mpc = "done" =>
    \A alloc \in Allocs(Len(mexpr.cases)) : simplify_tuple_match(mexpr, alloc) = mout

\* ------------------------------------------------------------------------
\* Claims on the grouping of the cases
\* ------------------------------------------------------------------------
\* the places <<k, a>> of the map at which a case of source case i stands
GroupedAt(i) ==
  {ka \in (1..Len(mmap)) \X (1..Len(mexpr.cases)) :
     /\ ka[2] <= Len(mmap[ka[1]].cases)
     /\ mmap[ka[1]].cases[ka[2]].id = i}

RECURSIVE SumLen(_)
SumLen(groups) == IF groups = <<>> THEN 0 ELSE Len(Head(groups).cases) + SumLen(Tail(groups))

\* the source cases whose first alternative is a tuple pattern with
\* multiple items
MultipleCases ==
  {i \in 1..Len(mexpr.cases) :
     mexpr.cases[i].pats[1].pt = "TUPLE" /\ mexpr.cases[i].pats[1].itype = "MULTIPLE"}

C23_AdtCtorFields ==
  epc \in {"built", "matched"} =>
    LET arguments == [i \in 1..Len(ein.args) |-> build_int_cst(ein.args[i])] IN
    /\ evalue.op = "CONSTRUCTOR"
    /\ evalue.ty = CompileAdtType(edef)
    /\ IF edef.is_enum
       THEN /\ Len(evalue.args) = Len(ein.args) + 1
            /\ evalue.args[1] = build_int_cst(BuiltVariant.discr)
            /\ Tail(evalue.args) = arguments
            /\ evalue.val = ein.variant
       ELSE /\ evalue.args = arguments
            /\ evalue.val = -1
            /\ ein.variant = 0

\* the second variant of an enum was built with two different arguments
C23_Witness ==
  /\ epc = "built"
  /\ edef.is_enum
  /\ ein.variant = 1
  /\ Len(ein.args) = 2
  /\ ein.args[1] # ein.args[2]

\* ------------------------------------------------------------------------
\* C28
\* ------------------------------------------------------------------------
IsDeref(adj) == adj.type \in {"DEREF", "DEREF_MUT"}

\* the call of the deref operator function on the value before step k
DerefCall(k) ==
  call_expression(
    TyTyResolveCompile(aworld, ain.adjustments[k].fnret),
    <<IF ain.adjustments[k].needs_borrow
      THEN address_expression(ValueBefore(k), build_reference_type(TREE_TYPE(ValueBefore(k))))
      ELSE ValueBefore(k)>>)

\* the direct indirection of the value before step k
DirectIndirection(k) ==
  indirect_expression(TyTyResolveCompile(aworld, ain.adjustments[k].expected), ValueBefore(k))

\* C28 as stated: a Deref adjustment with an operator function becomes a
\* call of that function on the value (borrowed when the function takes a
\* reference) and the call is the new value; a Deref adjustment without an
\* operator function becomes a direct indirection, never a failure.
C28_DerefCallsOverloadElseIndirection ==
  apc = "adjusted" =>
    \A k \in 1..Len(atrace) :
      IsDeref(ain.adjustments[k]) =>
        IF has_operator_overload(ain.adjustments[k])
        THEN atrace[k] = DerefCall(k)
        ELSE atrace[k] = DirectIndirection(k)

\* C28 amended: a Deref adjustment with an operator function becomes a call
\* of that function on the value (borrowed when the function takes a
\* reference) and the call is the new value; a Deref adjustment without an
\* operator function fails the assertion of resolve_deref_adjustment, which
\* ends the lowering; the plain dereference is the Indirection adjustment,
\* which becomes a direct indirection.
C28_DerefCallsOverloadIndirectionIsOwnKind ==
  apc = "adjusted" =>
    \A k \in 1..Len(atrace) :
      /\ IsDeref(ain.adjustments[k]) =>
           IF has_operator_overload(ain.adjustments[k])
           THEN atrace[k] = DerefCall(k) /\ (k = Len(atrace) => ares = atrace[k])
           ELSE atrace[k] = InternalError /\ k = Len(atrace) /\ ares = InternalError
      /\ ain.adjustments[k].type = "INDIRECTION" => atrace[k] = DirectIndirection(k)

\* a reference was followed, the operator function was called on the
\* borrowed result and the call is the value returned
C28_Witness ==
  /\ apc = "adjusted"
  /\ Len(atrace) = 2
  /\ ain.adjustments[1].type = "INDIRECTION"
  /\ IsDeref(ain.adjustments[2])
  /\ ain.adjustments[2].needs_borrow
  /\ ares.op = "CALL_EXPR"
  /\ ares.args[1].op = "ADDR_EXPR"
  /\ ares.args[1].args[1] = DirectIndirection(1)

\* ------------------------------------------------------------------------
\* C29
\* ------------------------------------------------------------------------
\* C29: an Unsize adjustment on an array value builds the aggregate
\* {data, length} in that order: data is the address of the array, and length
\* is max_index - min_index + 1 of the array's domain taken in the width of
\* the index type, which is the number of elements of the array.
C29_UnsizeIsAddressThenCount ==
  apc = "adjusted" =>
    \A k \in 1..Len(atrace) :
      ain.adjustments[k].type = "UNSIZE" =>
        LET array == ValueBefore(k)
            domain == TREE_TYPE(array)
        IN /\ atrace[k].op = "CONSTRUCTOR"
           /\ TREE_TYPE(atrace[k]) = TyTyResolveCompile(aworld, ain.adjustments[k].expected)
           /\ Len(atrace[k].args) = 2
           /\ IsAddressOf(atrace[k].args[1], array, build_reference_type(TREE_TYPE(array)))
           /\ atrace[k].args[2].op = "INTEGER_CST"
           /\ atrace[k].args[2].val =
                (TYPE_MAX_VALUE(domain) - TYPE_MIN_VALUE(domain) + 1) % UsizeRange
           /\ atrace[k].args[2].val = domain.n

\* an array without elements, whose upper bound wraps, was unsized
C29_Witness ==
  /\ apc = "adjusted"
  /\ Len(atrace) >= 1
  /\ ain.adjustments[1].type = "UNSIZE"
  /\ TREE_TYPE(ain.value).n = 0
  /\ TYPE_MAX_VALUE(TREE_TYPE(ain.value)) = UsizeRange - 1
  /\ atrace[1].args[2].val = 0

\* ------------------------------------------------------------------------
\* C30
\* ------------------------------------------------------------------------
\* the switch statements the lowering appended to the enclosing block
OwnSwitches == {k \in 1..Len(OwnStatements) : OwnStatements[k].kind = "switch"}

\* the lowered value of the first element of the scrutinee: of the first
\* expression of a tuple expression, of field 0 of a tuple-typed variable
FirstElementValue(scrutinee) ==
  IF scrutinee.et = "Tuple"
  THEN visit_PathInExpression(scrutinee.elems[1], NewContext(FALSE)).translated
  ELSE struct_field_expression(visit_PathInExpression(scrutinee, NewContext(FALSE)).translated, 0)

\* C30: the lowering of a match whose scrutinee has a tuple type, be the
\* scrutinee a tuple expression of one or more elements or a path to a
\* variable, ends without an internal error, and the switch it emits has
\* for discriminant the lowered value of the first element of the scrutinee.
C30_TupleScrutineeSwitchesOnFirstElement ==
  (lpc = "done" /\ lexpr.et = "Match" /\ lty.sfound /\ lty.mfound /\ lty.skind = "TUPLE") =>
    /\ lctx.translated # InternalError
    /\ OwnSwitches # {}
    /\ \A k \in OwnSwitches :
         OwnStatements[k].val = FirstElementValue(get_scrutinee_expr(lexpr))

\* ------------------------------------------------------------------------
\* C22
\* ------------------------------------------------------------------------
\* C22: the operands of a plain call are the source arguments in their
\* order, one for one; argument i is coerced to the type of parameter i when
\* there is a parameter i, and an argument past the parameters is passed as
\* it is, which happens for a variadic function only.
C22_ArgumentsCoercedToParameters ==
  (cpc = "done" /\ cin.kind = "call") =>
    LET params == cin.fntype.params
        source(k) == CompileArgument(k, cin.actuals[k])
    IN /\ Len(cout.args) = Len(cin.actuals)
       /\ cout.translated.op = "CALL_EXPR"
       /\ cout.translated.args = cout.args
       /\ \A k \in 1..Len(cin.actuals) :
            IF k <= Len(params)
            THEN cout.args[k] = coercion_site(source(k), cin.actuals[k], params[k])
            ELSE /\ cout.args[k] = source(k)
                 /\ cin.fntype.kind = "FNDEF"
                 /\ cin.fntype.varadic

\* a variadic function was called with an argument that its parameter
\* converts and with one more argument, passed as it is
C22_Witness ==
  /\ cpc = "done"
  /\ cin.kind = "call"
  /\ cin.fntype.varadic
  /\ Len(cin.fntype.params) = 1
  /\ Len(cin.actuals) = 2
  /\ cin.actuals[1] # cin.fntype.params[1]
  /\ cout.args[1].op = "COERCE"
  /\ cout.args[2] = CompileArgument(2, cin.actuals[2])

\* ------------------------------------------------------------------------
\* C24, C25
\* ------------------------------------------------------------------------
\* the call site resolves its callee with resolve_method_address and every
\* adjustment of the receiver can be applied
StaticallyResolved ==
  /\ cpc = "done"
  /\ \/ cin.kind = "method" /\ get_root(cin.receiver).k # "DYNAMIC"
     \/ cin.kind = "operator" /\ cin.overload
  /\ \A k \in 1..Len(cin.adjustments) :
       IsDeref(cin.adjustments[k]) => has_operator_overload(cin.adjustments[k])

\* the call site reached the probe of the receiver's root type
Probed == StaticallyResolved /\ ~cin.resolution.cached /\ ~cin.resolution.impl_item

\* C24: the callee is (a) the cached declaration of the function type, and
\* then no item is compiled; else (b) the impl item of the resolved symbol,
\* or the one impl candidate of the probe, compiled for a concrete type when
\* substitutions are defined; else (c) the trait item, which is compiled
\* only when the probe finds no candidate and the item has a default body.
C24_CalleeByPriority ==
  StaticallyResolved =>
    LET res == cin.resolution
        fntype == cin.fntype
    IN /\ Len(cout.compiled) <= 1
       /\ res.cached => cout.fn_expr = FnAddress(fntype.id) /\ cout.compiled = <<>>
       /\ (~res.cached /\ res.impl_item) =>
            /\ cout.fn_expr = FnAddress(DeclId("impl_item"))
            /\ cout.compiled =
                 <<CompiledItem("impl_item", IF fntype.substs THEN "fntype" ELSE "none")>>
       /\ (Probed /\ Len(res.candidates) = 1 /\ res.candidates[1].impl) =>
            /\ cout.fn_expr = FnAddress(DeclId("candidate"))
            /\ Len(cout.compiled) = 1
            /\ cout.compiled[1].item = "candidate"
            /\ cout.compiled[1].concrete = "none" <=> ~res.candidates[1].substs
       /\ (Probed /\ res.candidates = <<>> /\ res.optional) =>
            /\ cout.fn_expr = FnAddress(DeclId("trait_item"))
            /\ cout.compiled = <<CompiledItem("trait_item", "fntype")>>
       /\ \A k \in 1..Len(cout.compiled) :
            cout.compiled[k].item = "trait_item" =>
              Probed /\ res.candidates = <<>> /\ res.optional

\* a generic candidate of the probe was compiled for the unified type
C24_Witness ==
  /\ Probed
  /\ cin.kind = "method"
  /\ Len(cin.resolution.candidates) = 1
  /\ cout.compiled = <<CompiledItem("candidate", "unified")>>
  /\ cout.translated.op = "CALL_EXPR"

\* C25 as stated: when the probe returns no candidate or more than one, the
\* resolution fails and there is no callee.
C25_OneCandidateOrFailure ==
  (Probed /\ Len(cin.resolution.candidates) # 1) => cout.fn_expr = InternalError

\* C25 amended: the probe is reached only when neither the cache nor the
\* impl item of the resolved symbol gives the callee; when it returns more
\* than one candidate the resolution fails and there is no callee; when it
\* returns none, the trait item is the callee if it has a default body and
\* the resolution fails if it has none.
C25_ManyCandidatesOrNoDefaultFail ==
  /\ (StaticallyResolved /\ ~Probed) => cout.fn_expr # InternalError
  /\ Probed =>
       LET res == cin.resolution IN
       /\ Len(res.candidates) > 1 => cout.fn_expr = InternalError
       /\ res.candidates = <<>> =>
            IF res.optional THEN cout.fn_expr = FnAddress(DeclId("trait_item"))
            ELSE cout.fn_expr = InternalError

\* the probe found no candidate and the call goes to the trait item
C25_Witness ==
  /\ Probed
  /\ cin.kind = "method"
  /\ cin.resolution.candidates = <<>>
  /\ cin.resolution.optional
  /\ cout.fn_expr = FnAddress(DeclId("trait_item"))
  /\ cout.translated.op = "CALL_EXPR"

\* ------------------------------------------------------------------------
\* C26
\* ------------------------------------------------------------------------
ReceiverExpr == VarDecl(TyTyResolveCompile("handle", cin.receiver))

\* the trait object behind the receiver, after one indirection when the
\* receiver is a reference
DynObject(receiver_value) == DynReceiver(cin.receiver.k = "REF", receiver_value)

\* C26: the call of a method has one operand more than the source has
\* arguments; operand 0 is the receiver with its recorded adjustments
\* applied, and source argument i, coerced to the type of parameter i + 1,
\* is operand i + 1.  Under dynamic dispatch the receiver passed is field 0
\* of the trait object and the vtable is its field 1, the object taken
\* after one indirection when the receiver is a reference.
C26_AdjustedReceiverThenArguments ==
  (cpc = "done" /\ cin.kind = "method" /\ cout.translated # InternalError) =>
    LET adjusted == resolve_adjustements("handle", cin.adjustments, ReceiverExpr) IN
    /\ Len(cout.args) = Len(cin.actuals) + 1
    /\ cout.translated.args = cout.args
    /\ \A k \in 1..Len(cin.actuals) :
         cout.args[k + 1] =
           coercion_site(CompileArgument(k, cin.actuals[k]), cin.actuals[k],
                         cin.fntype.params[k + 1])
    /\ IF get_root(cin.receiver).k = "DYNAMIC"
       THEN /\ cout.args[1] \in {struct_field_expression(DynObject(ReceiverExpr), 0),
                                  struct_field_expression(DynObject(adjusted), 0)}
            /\ cout.fn_expr.op = "OBJ_TYPE_REF" =>
                 cout.fn_expr.args[1].args[1] =
                   struct_field_expression(DynObject(ReceiverExpr), 1)
       ELSE cout.args[1] = adjusted

\* ------------------------------------------------------------------------
\* C27
\* ------------------------------------------------------------------------
\* an operator expression with an overload was lowered
OverloadLowered ==
  cpc = "done" /\ cin.kind = "operator" /\ cin.overload /\ cout.fn_expr # InternalError

\* the node the operator lowers to when it has no overload
BuiltinNodes(op) ==
  IF op = "Arithmetic" THEN {"BINOP"}
  ELSE IF op = "CompoundAssignment" THEN {"MODIFY_EXPR", "BINOP"}
  ELSE IF op = "Negation" THEN {"NEGATE_EXPR"}
  ELSE IF op = "Dereference" THEN {"INDIRECT_REF"}
  ELSE {"ARRAY_REF"}

\* what the expression lowered to: its value, or for a compound assignment
\* the statement added
LoweredTo == IF cin.op = "CompoundAssignment" THEN cout.stmts[1] ELSE cout.translated

\* the call to the operator function, which an index expression reads through
\* when the function returns a pointer
OverloadCall ==
  IF cin.op = "Index" /\ LoweredTo.op = "INDIRECT_REF" THEN LoweredTo.args[1] ELSE LoweredTo

\* the operands the call of the operator function is to have
OverloadOperands ==
  <<resolve_adjustements("handle", cin.adjustments, LeftOperand(cin))>>
  \o (IF IsUnary(cin.op) THEN <<>> ELSE <<RightOperand>>)

\* C27 as stated: an operator with an overload lowers to one call: of the
\* adjusted left operand and, for a binary operator, the right operand; the
\* built-in node of the operator is not emitted.
C27_OverloadIsOneCall ==
  OverloadLowered =>
    /\ OverloadCall.op = "CALL_EXPR"
    /\ OverloadCall.args = OverloadOperands
    /\ Len(OverloadCall.args) = (IF IsUnary(cin.op) THEN 1 ELSE 2)
    /\ LoweredTo.op \notin BuiltinNodes(cin.op)
    /\ Len(cout.stmts) = (IF cin.op = "CompoundAssignment" THEN 1 ELSE 0)

\* the call of a dereference operator with an overload
DerefOverloadCall ==
  IF LoweredTo.op = "INDIRECT_REF" THEN LoweredTo.args[1] ELSE LoweredTo

\* C27 amended: an arithmetic, compound assignment, negation or index
\* operator with an overload lowers to one call, of the adjusted left operand
\* and, for a binary operator, the right operand, and the built-in node of
\* the operator is not emitted; a dereference with an overload lowers to
\* that call of one operand and then to the built-in indirection of the
\* call's result, which is left out only when the result and the expected
\* type both are slices.
C27_OverloadIsOneCallDerefIndirects ==
  OverloadLowered =>
    IF cin.op # "Dereference"
    THEN /\ OverloadCall.op = "CALL_EXPR"
         /\ OverloadCall.args = OverloadOperands
         /\ Len(OverloadCall.args) = (IF IsUnary(cin.op) THEN 1 ELSE 2)
         /\ LoweredTo.op \notin BuiltinNodes(cin.op)
         /\ Len(cout.stmts) = (IF cin.op = "CompoundAssignment" THEN 1 ELSE 0)
    ELSE /\ DerefOverloadCall.op = "CALL_EXPR"
         /\ DerefOverloadCall.args = OverloadOperands
         /\ Len(DerefOverloadCall.args) = 1
         /\ cout.stmts = <<>>
         /\ LoweredTo.op = "INDIRECT_REF" <=>
              ~(SLICE_TYPE_P(TREE_TYPE(DerefOverloadCall))
                /\ SLICE_TYPE_P(TyTyResolveCompile("handle", cin.expected)))

\* a dereference with an overload was lowered to the indirection of the
\* call on the borrowed operand
C27_Witness ==
  /\ OverloadLowered
  /\ cin.op = "Dereference"
  /\ Len(cin.adjustments) = 1
  /\ IsBorrow(cin.adjustments[1])
  /\ cout.translated.op = "INDIRECT_REF"
  /\ cout.translated.args[1].op = "CALL_EXPR"
  /\ cout.translated.args[1].args[1].op = "ADDR_EXPR"

====
